---- MODULE Spec2Model ----
(***************************************************************************)
(* Repairo: the contractor recommender of the maintenance request detail   *)
(* page (frontend/src/pages/MaintenanceRequestDetail.jsx, the second       *)
(* useEffect) over the provider roster mockContractors; the maintenance    *)
(* API with the chat rooms of the requests and the Cloud Functions         *)
(* triggers; AuthContext with ProtectedRoute; the invites API; the tenant  *)
(* lists of the landlord dashboard; the tenant's property dashboard.       *)
(*                                                                         *)
(* Each component has its own specification (Spec, SpecClassify, SpecArea, *)
(* SpecRequests, SpecAuth, SpecInvites, SpecTenants, SpecLoad); the        *)
(* variables of the other components keep their initial values in it.  An  *)
(* async function is one action per stretch of code between two awaits.    *)
(*                                                                         *)
(* Conventions of the model                                                *)
(*  - a JavaScript string is a sequence of one-character strings;          *)
(*  - a value that may be null/undefined is a sequence of length 0 (Null)  *)
(*    or 1 (Some(v));                                                      *)
(*  - a rating is kept in tenths (4.8 is 48), a price is an integer;       *)
(*  - a score is an exact fraction [num, den] in lowest terms.  The code   *)
(*    computes in IEEE doubles; the fractions order the same scores the    *)
(*    same way except where two different fractions round to one double.   *)
(***************************************************************************)
EXTENDS Integers, Sequences, FiniteSets, TLC

VARIABLES
    \* MaintenanceRequestDetail: the recommender
    mockContractors,       \* the provider roster (App.jsx, mockContractors)
    request,               \* useState(null): the loaded request
    propertyInfo,          \* useState(null): the loaded property
    suggestedContractors,  \* useState([]): scored.slice(0, 3)
    areaContractors,       \* useState([]): scored
    serviceKey,            \* local of the effect's last run
    inArea,                \* local of the effect's last run
    candidates,            \* local of the effect's last run
    effectPending,         \* a render with changed deps awaits its effect
    loadPc,                \* position of loadRequest
    effectRerun,           \* the render awaiting its effect, or the last run, has
                           \* the title and the property of the run before
    effectError            \* the last run of the effect threw

recVars == << mockContractors, request, propertyInfo, suggestedContractors,
              areaContractors, serviceKey, inArea, candidates, effectPending,
              loadPc, effectRerun, effectError >>

VARIABLES
    \* Firestore and the maintenance API
    requests,              \* collection maintenanceRequests: request id -> document
    rooms,                 \* collection rooms, in the order a query returns it
    createCall,            \* per request id: the createMaintenanceRequest call making it
    assignCall,            \* per request id: the assignContractor call on it
    onCreatePending,       \* onCreate triggers the functions runtime still owes
    onUpdatePending        \* onUpdate triggers for a contractor just assigned

dbVars == << requests, rooms, createCall, assignCall, onCreatePending,
             onUpdatePending >>

VARIABLES
    \* AuthContext, the browser's storage and the route shown
    currentUser,           \* useState(null)
    userRole,              \* useState(null)
    loading,               \* useState(true)
    authCallback,          \* the onAuthStateChanged callback in flight and its locals
    localStorage,          \* pendingRoleUid, pendingRole and userRole_<uid>
    sessionStorage,        \* the same keys of sessionStorage
    requiredRoles,         \* the prop of the ProtectedRoute of the current route
    rendered               \* what that ProtectedRoute returned at the last render

authVars == << currentUser, userRole, loading, authCallback, localStorage,
               sessionStorage, requiredRoles, rendered >>

VARIABLES
    \* the invites API
    invites,               \* collection invites, in the order of creation
    inviteCall,            \* per caller: the createInvite call in flight
    acceptCall             \* the acceptInvite call in flight

invVars == << invites, inviteCall, acceptCall >>

VARIABLES
    \* the tenants of a property and the landlord dashboard's synchronisations
    tenantIds,             \* tenantIds of the property document
    userProperty,          \* propertyId of each tenant's user document
    removedTenants,        \* history: tenants removed by the landlord who have
                           \* not accepted an invite since
    selectAfter,           \* history: those of them removed before the
                           \* handleSelectProperty call in flight began
    syncAllAfter,          \* history: the same for syncAllPropertiesTenants
    selectedProperty,      \* the dashboard's selectedProperty
    selectCall,            \* the handleSelectProperty call in flight
    syncAllCall,           \* the syncAllPropertiesTenants call in flight
    removeCall             \* the handleRemoveTenant call in flight

tenVars ==
    << tenantIds, userProperty, removedTenants, selectAfter, syncAllAfter,
       selectedProperty, selectCall, syncAllCall, removeCall >>

\* the history of the removals
tenHistory == << removedTenants, selectAfter, syncAllAfter >>

\* what an acceptInvite step leaves alone on the landlord's dashboard
dashVars == << selectedProperty, selectCall, syncAllCall, removeCall >>

VARIABLES
    \* the chat button of the maintenance request detail page
    openCall               \* per request id: the handleOpenChat call on it

chatVars == << openCall >>

VARIABLES
    \* the tenant's PropertyDashboard
    pdLoading,             \* its state loading
    pdError,               \* its state error
    pdPropertyInfo,        \* its state propertyInfo
    pdLandlordInfo,        \* its state landlordInfo
    loadCall,              \* the loadPropertyData call in flight
    attempts               \* history: the getPropertyByPropertyId calls of it

loadVars ==
    << pdLoading, pdError, pdPropertyInfo, pdLandlordInfo, loadCall, attempts >>

\* the state of the other components
restVars == << chatVars, dbVars, authVars, invVars, tenVars, loadVars >>

\* what the maintenance API leaves alone
nonDbVars == << chatVars, recVars, authVars, invVars, tenVars, loadVars >>

\* what AuthContext and the router leave alone
nonAuthVars == << chatVars, recVars, dbVars, invVars, tenVars, loadVars >>

\* what the invites API and the tenant lists leave alone
nonInvVars == << chatVars, recVars, dbVars, authVars, loadVars >>

\* what the chat button leaves alone, the maintenance API apart
nonChatVars == << recVars, authVars, invVars, tenVars, loadVars >>

\* what the PropertyDashboard leaves alone
nonLoadVars == << chatVars, recVars, dbVars, authVars, invVars, tenVars >>

vars == << recVars, restVars >>

----------------------------------------------------------------------------
(* Optional values *)

Null == << >>

Some(v) == << v >>

IsNull(o) == o = << >>

\* JavaScript's  o || d  for an optional string
OrEmpty(o) == IF IsNull(o) THEN << >> ELSE o[1]

----------------------------------------------------------------------------
(* Strings *)

\* String.prototype.toLowerCase on one character
LowerChar(ch) ==
    CASE ch = "A" -> "a" [] ch = "B" -> "b" [] ch = "C" -> "c" [] ch = "D" -> "d"
      [] ch = "E" -> "e" [] ch = "F" -> "f" [] ch = "G" -> "g" [] ch = "H" -> "h"
      [] ch = "I" -> "i" [] ch = "J" -> "j" [] ch = "K" -> "k" [] ch = "L" -> "l"
      [] ch = "M" -> "m" [] ch = "N" -> "n" [] ch = "O" -> "o" [] ch = "P" -> "p"
      [] ch = "Q" -> "q" [] ch = "R" -> "r" [] ch = "S" -> "s" [] ch = "T" -> "t"
      [] ch = "U" -> "u" [] ch = "V" -> "v" [] ch = "W" -> "w" [] ch = "X" -> "x"
      [] ch = "Y" -> "y" [] ch = "Z" -> "z" [] OTHER -> ch

toLowerCase(s) == [i \in 1..Len(s) |-> LowerChar(s[i])]

\* String.prototype.includes: sub occurs in s as a contiguous substring
includes(s, sub) ==
    \E i \in 0..(Len(s) - Len(sub)) : SubSeq(s, i + 1, i + Len(sub)) = sub

----------------------------------------------------------------------------
(* Exact fractions *)

RECURSIVE Gcd(_, _)
Gcd(a, b) == IF b = 0 THEN a ELSE Gcd(b, a % b)

Abs(x) == IF x < 0 THEN -x ELSE x

\* n / d in lowest terms with a positive denominator (d # 0)
Frac(n, d) ==
    LET g == Gcd(Abs(n), Abs(d))
        s == IF d < 0 THEN -1 ELSE 1
    IN  [num |-> s * (n \div g), den |-> s * (d \div g)]

FracAdd(x, y) == Frac(x.num * y.den + y.num * x.den, x.den * y.den)

FracMul(x, y) == Frac(x.num * y.num, x.den * y.den)

\* a/b < c/d for a, c >= 0 and b, d > 0, by comparing integer parts and then
\* the reciprocals of the remainders, so that no product is formed
RECURSIVE LessQ(_, _, _, _)
LessQ(a, b, c, d) ==
    IF a \div b # c \div d THEN a \div b < c \div d
    ELSE IF c % d = 0 THEN FALSE
    ELSE IF a % b = 0 THEN TRUE
    ELSE LessQ(d, c % d, b, a % b)

FracLess(x, y) == LessQ(x.num, x.den, y.num, y.den)

FracLeq(x, y) == ~FracLess(y, x)

----------------------------------------------------------------------------
(* The recommender: MaintenanceRequestDetail.jsx, lines 96-138 *)

Plumbing == "plumbing"

Electrical == "electrical"

General == "general"

kwToilet == << "t", "o", "i", "l", "e", "t" >>

kwSink == << "s", "i", "n", "k" >>

kwPlumb == << "p", "l", "u", "m", "b" >>

kwLight == << "l", "i", "g", "h", "t" >>

kwElect == << "e", "l", "e", "c", "t" >>

\* request?.title || ''  : a null request, a missing title and '' all give ''
TitleOf(req) == IF IsNull(req) THEN << >> ELSE OrEmpty(req[1].title)

\* ServiceKey with the electrical keywords tested first
ServiceKeyElectricalFirst(req) ==
    LET t == toLowerCase(TitleOf(req))
    IN  IF includes(t, kwLight) \/ includes(t, kwElect)
          THEN Electrical
        ELSE IF includes(t, kwToilet) \/ includes(t, kwSink) \/ includes(t, kwPlumb)
          THEN Plumbing
        ELSE General

\* const serviceKey = (() => { ... })()
ServiceKey(req) ==
    LET t == toLowerCase(TitleOf(req))
    IN  IF includes(t, kwToilet) \/ includes(t, kwSink) \/ includes(t, kwPlumb)
          THEN Plumbing
        ELSE IF includes(t, kwLight) \/ includes(t, kwElect)
          THEN Electrical
        ELSE General

\* `${city} ${addr} ${county}` of a property object
AreaStr(p) ==
    LET city   == toLowerCase(OrEmpty(p.city))
        addr   == toLowerCase(OrEmpty(p.address))
        county == toLowerCase(OrEmpty(p.county))
    IN  city \o << " " >> \o addr \o << " " >> \o county

\* AreaMatch without the lower-casing of the service area
AreaMatchNoLower(c, p) ==
    \E k \in 1..Len(c.areas) : includes(AreaStr(p), c.areas[k])

\* c.areas.some((a) => areaStr.includes(a.toLowerCase()))
AreaMatch(c, p) ==
    \E k \in 1..Len(c.areas) : includes(AreaStr(p), toLowerCase(c.areas[k]))

\* const inArea = propertyInfo ? mockContractors.filter(...) : mockContractors
InArea(roster, prop) ==
    IF IsNull(prop)
      THEN roster
      ELSE LET Keep(c) == AreaMatch(c, prop[1]) IN SelectSeq(roster, Keep)

\* Candidates without the fallback to the roster
CandidatesNoFallback(inA, roster) == inA

\* const candidates = inArea.length > 0 ? inArea : mockContractors
Candidates(inA, roster) == IF Len(inA) > 0 THEN inA ELSE roster

SentinelPrice == 999

\* c.prices?.[key] : undefined when the table or the entry is missing
Quote(c, key) ==
    IF IsNull(c.prices) THEN Null
    ELSE IF key \in DOMAIN c.prices[1] THEN Some(c.prices[1][key])
    ELSE Null

\* JavaScript truthiness of an optional number: undefined and 0 are falsy
Truthy(o) == ~IsNull(o) /\ o[1] # 0

\* c.prices?.[serviceKey] || c.prices?.general || 999
Price(c, key) ==
    IF Truthy(Quote(c, key)) THEN Quote(c, key)[1]
    ELSE IF Truthy(Quote(c, General)) THEN Quote(c, General)[1]
    ELSE SentinelPrice

\* const prices = candidates.map(...)
Prices(cands, key) == [i \in 1..Len(cands) |-> Price(cands[i], key)]

\* Math.min(...prices), Math.max(...prices); used for non-empty prices only
MinPrice(ps) ==
    CHOOSE m \in {ps[i] : i \in 1..Len(ps)} : \A j \in 1..Len(ps) : m <= ps[j]

MaxPrice(ps) ==
    CHOOSE m \in {ps[i] : i \in 1..Len(ps)} : \A j \in 1..Len(ps) : m >= ps[j]

\* NormPrice scoring the degenerate pool 0
NormPriceDegenerateZero(p, minP, maxP) ==
    IF maxP = minP THEN Frac(0, 1) ELSE Frac(maxP - p, maxP - minP)

\* NormPrice with the scale the wrong way round: a higher price scores higher
NormPriceInverted(p, minP, maxP) ==
    IF maxP = minP THEN Frac(1, 1) ELSE Frac(p - minP, maxP - minP)

\* const normPrice = (p) => ...
NormPrice(p, minP, maxP) ==
    IF maxP = minP THEN Frac(1, 1) ELSE Frac(maxP - p, maxP - minP)

\* (c.rating || 0) / 5, the rating being in tenths
RatingScore(c) == Frac(IF IsNull(c.rating) THEN 0 ELSE c.rating[1], 50)

\* 0.6 and 0.4
RatingWeight == Frac(3, 5)

PriceWeight == Frac(2, 5)

\* ValueScore with the price score not weighted
ValueScoreUnweightedPrice(ratingScore, priceScore) ==
    FracAdd(FracMul(ratingScore, RatingWeight), priceScore)

\* ValueScore that leaves the price out
ValueScoreRatingOnly(ratingScore, priceScore) == FracMul(ratingScore, RatingWeight)

\* ratingScore * 0.6 + priceScore * 0.4
ValueScore(ratingScore, priceScore) ==
    FracAdd(FracMul(ratingScore, RatingWeight), FracMul(priceScore, PriceWeight))

\* the body of candidates.map((c) => ...): { ...c, price, valueScore }
ScoreOne(c, key, minP, maxP) ==
    LET price      == Price(c, key)
        priceScore == NormPrice(price, minP, maxP)
    IN  [id |-> c.id, rating |-> c.rating, areas |-> c.areas, prices |-> c.prices,
         price |-> price, valueScore |-> ValueScore(RatingScore(c), priceScore)]

\* Scored leaving out the providers that have no quote
ScoredDropUnquoted(cands, key) ==
    LET Quoted(c) == Truthy(Quote(c, key)) \/ Truthy(Quote(c, General))
        kept == SelectSeq(cands, Quoted)
        ps == Prices(kept, key)
    IN  [i \in 1..Len(kept) |-> ScoreOne(kept[i], key, MinPrice(ps), MaxPrice(ps))]

\* const scored = candidates.map(...), before the sort
Scored(cands, key) ==
    LET ps == Prices(cands, key)
    IN  [i \in 1..Len(cands) |-> ScoreOne(cands[i], key, MinPrice(ps), MaxPrice(ps))]

\* Before for the comparator a.valueScore - b.valueScore: ascending
BeforeAscending(a, b) == FracLess(a.valueScore, b.valueScore)

\* the comparator (a, b) => b.valueScore - a.valueScore is negative, i.e. a
\* goes before b, when a's score is the larger
Before(a, b) == FracLess(b.valueScore, a.valueScore)

\* InsertSorted putting e in front of the elements that compare equal
InsertSortedUnstable(s, e) ==
    LET later == {j \in 1..Len(s) : ~Before(s[j], e)}
        pos   == IF later = {} THEN Len(s) + 1
                 ELSE CHOOSE j \in later : \A k \in later : j <= k
    IN  SubSeq(s, 1, pos - 1) \o << e >> \o SubSeq(s, pos, Len(s))

\* one step of a stable sort: e goes in front of the first element that the
\* comparator puts after it, behind every element that compares equal
InsertSorted(s, e) ==
    LET later == {j \in 1..Len(s) : Before(e, s[j])}
        pos   == IF later = {} THEN Len(s) + 1
                 ELSE CHOOSE j \in later : \A k \in later : j <= k
    IN  SubSeq(s, 1, pos - 1) \o << e >> \o SubSeq(s, pos, Len(s))

\* scored.sort(...): Array.prototype.sort is stable (ECMAScript 2019)
RECURSIVE SortPrefix(_, _)
SortPrefix(s, n) ==
    IF n = 0 THEN << >> ELSE InsertSorted(SortPrefix(s, n - 1), s[n])

SortScored(s) == SortPrefix(s, Len(s))

TopN == 3

\* scored.slice(0, 3)
Slice(s) == SubSeq(s, 1, IF Len(s) < TopN THEN Len(s) ELSE TopN)

----------------------------------------------------------------------------
(* The roster of App.jsx.  The display-only fields (name, email, phone,    *)
(* reviewCount, specialties) are read by no step of the recommender and    *)
(* are left out.                                                           *)

\* export const mockContractors = [ ... ]
RealRoster ==
    <<
      [id |-> "c1", rating |-> Some(48),
       areas |-> << << "L", "o", "s", " ", "A", "n", "g", "e", "l", "e", "s" >>,
                 << "L", "A", " ", "C", "o", "u", "n", "t", "y" >>,
                 << "S", "a", "n", "t", "a", " ", "M", "o", "n", "i", "c", "a" >>,
                 << "I", "n", "g", "l", "e", "w", "o", "o", "d" >>,
                 << "C", "u", "l", "v", "e", "r", " ", "C", "i", "t", "y" >>,
                 << "S", "o", "u", "t", "h", "e", "r", "n", " ", "C", "a", "l", "i", "f", "o", "r", "n", "i", "a" >> >>,
       prices |-> Some([plumbing |-> 220, electrical |-> 210, general |-> 160])],
      [id |-> "c2", rating |-> Some(47),
       areas |-> << << "O", "r", "a", "n", "g", "e", " ", "C", "o", "u", "n", "t", "y" >>,
                 << "I", "r", "v", "i", "n", "e" >>,
                 << "C", "o", "s", "t", "a", " ", "M", "e", "s", "a" >>,
                 << "N", "e", "w", "p", "o", "r", "t", " ", "B", "e", "a", "c", "h" >>,
                 << "S", "a", "n", "t", "a", " ", "A", "n", "a" >>,
                 << "S", "o", "u", "t", "h", "e", "r", "n", " ", "C", "a", "l", "i", "f", "o", "r", "n", "i", "a" >> >>,
       prices |-> Some([plumbing |-> 230, electrical |-> 225, general |-> 170])],
      [id |-> "c3", rating |-> Some(49),
       areas |-> << << "L", "o", "s", " ", "A", "n", "g", "e", "l", "e", "s" >>,
                 << "L", "A", " ", "C", "o", "u", "n", "t", "y" >>,
                 << "P", "a", "s", "a", "d", "e", "n", "a" >>,
                 << "G", "l", "e", "n", "d", "a", "l", "e" >>,
                 << "B", "u", "r", "b", "a", "n", "k" >>,
                 << "S", "o", "u", "t", "h", "e", "r", "n", " ", "C", "a", "l", "i", "f", "o", "r", "n", "i", "a" >> >>,
       prices |-> Some([plumbing |-> 999, electrical |-> 200, general |-> 180])],
      [id |-> "c4", rating |-> Some(45),
       areas |-> << << "R", "i", "v", "e", "r", "s", "i", "d", "e", " ", "C", "o", "u", "n", "t", "y" >>,
                 << "R", "i", "v", "e", "r", "s", "i", "d", "e" >>,
                 << "O", "n", "t", "a", "r", "i", "o" >>,
                 << "P", "o", "m", "o", "n", "a" >>,
                 << "S", "o", "u", "t", "h", "e", "r", "n", " ", "C", "a", "l", "i", "f", "o", "r", "n", "i", "a" >> >>,
       prices |-> Some([plumbing |-> 200, electrical |-> 215, general |-> 150])],
      [id |-> "c5", rating |-> Some(46),
       areas |-> << << "O", "r", "a", "n", "g", "e", " ", "C", "o", "u", "n", "t", "y" >>,
                 << "A", "n", "a", "h", "e", "i", "m" >>,
                 << "O", "r", "a", "n", "g", "e" >>,
                 << "F", "u", "l", "l", "e", "r", "t", "o", "n" >>,
                 << "I", "r", "v", "i", "n", "e" >>,
                 << "S", "o", "u", "t", "h", "e", "r", "n", " ", "C", "a", "l", "i", "f", "o", "r", "n", "i", "a" >> >>,
       prices |-> Some([plumbing |-> 250, electrical |-> 205, general |-> 165])],
      [id |-> "c6", rating |-> Some(44),
       areas |-> << << "L", "o", "s", " ", "A", "n", "g", "e", "l", "e", "s" >>,
                 << "L", "A", " ", "C", "o", "u", "n", "t", "y" >>,
                 << "L", "o", "n", "g", " ", "B", "e", "a", "c", "h" >>,
                 << "T", "o", "r", "r", "a", "n", "c", "e" >>,
                 << "S", "o", "u", "t", "h", "e", "r", "n", " ", "C", "a", "l", "i", "f", "o", "r", "n", "i", "a" >> >>,
       prices |-> Some([plumbing |-> 190, electrical |-> 220, general |-> 155])]
    >>

----------------------------------------------------------------------------
(* Inputs of the model *)

\* Request titles are concatenations of at most MaxTitleFrags fragments
MaxTitleFrags == 2

frToilet == << "T", "o", "i", "l", "e", "t" >>

frSink == << "s", "i", "n", "k" >>

frPlumb == << "P", "L", "U", "M", "B" >>

frLight == << "L", "i", "g", "h", "t" >>

frElect == << "e", "l", "e", "c", "t" >>

frSpace == << " " >>

frSi == << "s", "i" >>

frNk == << "n", "k" >>

TitleFrags == { frToilet, frSink, frPlumb, frLight, frElect, frSpace, frSi, frNk }

RECURSIVE Concats(_)
Concats(n) ==
    IF n = 0 THEN { << >> }
    ELSE Concats(n - 1) \cup {t \o f : t \in Concats(n - 1), f \in TitleFrags}

\* a request document with a title string, or with no title field
Titles == Concats(MaxTitleFrags)

RequestOf(optTitle) == Some([title |-> optTitle])

RichRequests == {RequestOf(Some(t)) : t \in Titles} \cup {RequestOf(Null)}

FewRequests == { RequestOf(Some(frSink)), RequestOf(Some(frLight)) }

OneRequest == { RequestOf(Some(frSink)) }

\* Property documents: city, address and county, each of which may be missing
strLa == << "L", "a" >>

strO == << "o" >>

strC == << "c" >>

strOC == << "O", "C" >>

str1LA == << "1", " ", "L", "A" >>

PropOf(city, address, county) ==
    Some([city |-> city, address |-> address, county |-> county])

RichProps ==
    { PropOf(ci, ad, co) : ci \in {Null, Some(strLa), Some(strO)},
                           ad \in {Null, Some(strC), Some(str1LA)},
                           co \in {Null, Some(strOC)} }

PropLA == PropOf(Some(strLa), Null, Null)

PropIrvine ==
    PropOf(Some(<< "I", "r", "v", "i", "n", "e" >>),
           Some(<< "1", " ", "M", "a", "i", "n", " ", "S", "t" >>),
           Some(<< "O", "r", "a", "n", "g", "e", " ", "C", "o", "u", "n", "t", "y" >>))

FewProps == { PropLA, PropIrvine }

\* Service-area lists of the rosters that exercise the area filter
areaLA == << "L", "A" >>

areaOc == << "O", "c" >>

areaZz == << "z", "z" >>

areaOC2 == << "o", " ", "c" >>

AreaLists ==
    { << >>, << areaLA >>, << areaZz, areaOc >>, << areaOC2 >>, << << >> >> }

AreaProfiles ==
    { [rating |-> Some(45), areas |-> a, prices |-> Some([general |-> 150])] :
        a \in AreaLists }

\* Rating and price profiles of the rosters that exercise the scoring
ProfileA ==
    [rating |-> Some(49), areas |-> << areaLA >>, prices |-> Some([general |-> 200])]

\* quotes plumbing at 0
ProfileB ==
    [rating |-> Some(45), areas |-> << areaLA >>,
     prices |-> Some([plumbing |-> 0, general |-> 150])]

\* has no price table
ProfileC == [rating |-> Some(40), areas |-> << areaOc >>, prices |-> Null]

\* has no general quote
ProfileD ==
    [rating |-> Some(50), areas |-> << areaOc >>,
     prices |-> Some([plumbing |-> 200, electrical |-> 999])]

\* has no rating
ProfileE ==
    [rating |-> Null, areas |-> << areaLA >>,
     prices |-> Some([electrical |-> 150, general |-> 200])]

ScoreProfiles == { ProfileA, ProfileB, ProfileC, ProfileD, ProfileE }

\* Profiles of the rosters that exercise the dominance of one provider over
\* another: equal ratings at different quotes, equal quotes at different
\* ratings, a provider without a price table and one without a rating
DominanceProfiles ==
    { [rating |-> Some(r), areas |-> << areaLA >>, prices |-> p] :
        r \in {40, 45}, p \in {Null, Some([general |-> 100]), Some([general |-> 150])} }
    \cup { [rating |-> Null, areas |-> << areaLA >>, prices |-> Some([general |-> 100])] }

MaxDominanceRoster == 3

MaxRoster == 4

MaxAreaRoster == 3

\* the ids of the roster, by position
Ids == << "c1", "c2", "c3", "c4", "c5", "c6" >>

\* a provider of the given profile at the given position
Provider(i, pr) ==
    [id |-> Ids[i], rating |-> pr.rating, areas |-> pr.areas, prices |-> pr.prices]

\* the rosters of at most n providers with profiles in P
Rosters(P, n) ==
    UNION { { [i \in 1..k |-> Provider(i, f[i])] : f \in [1..k -> P] } : k \in 0..n }

----------------------------------------------------------------------------
(* The component: state after construction, loadRequest, the effect *)

\* useState(...) initial values; the effect of the first render is pending
InitWith(rosters) ==
    /\ mockContractors \in rosters
    /\ request = Null
    /\ propertyInfo = Null
    /\ suggestedContractors = << >>
    /\ areaContractors = << >>
    /\ serviceKey = General
    /\ inArea = << >>
    /\ candidates = << >>
    /\ effectPending = TRUE
    /\ loadPc = "idle"
    /\ effectRerun = FALSE
    /\ effectError = FALSE

\* the dependency request?.title of the effect
TitleDep(req) == IF IsNull(req) THEN Null ELSE req[1].title

\* loadRequest, line 47: setRequest(requestData).  React flushes the pending
\* effect of a render before it renders the next update.
setRequest(r) ==
    /\ loadPc = "idle"
    /\ ~effectPending
    /\ request' = r
    /\ effectPending' = (TitleDep(r) # TitleDep(request))
    /\ effectRerun' = FALSE
    /\ loadPc' = "property"
    /\ UNCHANGED << mockContractors, propertyInfo, suggestedContractors,
                    areaContractors, serviceKey, inArea, candidates,
                    effectError, restVars >>

\* loadRequest, lines 50-54: setPropertyInfo(property), a fresh object: the
\* effect runs again also when the object has the content of the one before
setPropertyInfo(p) ==
    /\ loadPc = "property"
    /\ ~effectPending
    /\ propertyInfo' = p
    /\ effectPending' = TRUE
    /\ effectRerun' = (p = propertyInfo)
    /\ loadPc' = "idle"
    /\ UNCHANGED << mockContractors, request, suggestedContractors,
                    areaContractors, serviceKey, inArea, candidates,
                    effectError, restVars >>

\* loadRequest, lines 50-62: no propertyId, no such property, or a failed read
skipProperty ==
    /\ loadPc = "property"
    /\ ~effectPending
    /\ loadPc' = "idle"
    /\ UNCHANGED << mockContractors, request, propertyInfo, suggestedContractors,
                    areaContractors, serviceKey, inArea, candidates, effectPending,
                    effectRerun, effectError, restVars >>

\* reading a property of null or undefined throws a TypeError
PropReadThrows(o) == IsNull(o)

\* o?.p yields undefined for a null or undefined o
OptChainThrows(o) == FALSE

\* EffectThrows with the title read as request.title
EffectThrowsUnguardedTitle(req, prop, roster) ==
    \/ PropReadThrows(req)
    \/ \E i \in 1..Len(roster) : OptChainThrows(roster[i].prices)

\* the reads of the effect that may throw: request?.title (line 99),
\* propertyInfo.city, .address, .county behind the test of propertyInfo
\* (lines 106-110), c.prices?.[serviceKey] and c.prices?.general (lines 119, 128)
EffectThrows(req, prop, roster) ==
    \/ OptChainThrows(req)
    \/ (~IsNull(prop) /\ PropReadThrows(prop))
    \/ \E i \in 1..Len(roster) : OptChainThrows(roster[i].prices)

\* the state after a run of the effect that ends with the sorted list scored
\* and leaves the roster as rosterAfter
EffectOutcome(scored, rosterAfter) ==
    LET key   == ServiceKey(request)
        inA   == InArea(mockContractors, propertyInfo)
    IN  /\ effectPending' = FALSE
        /\ mockContractors' = rosterAfter
        /\ UNCHANGED << request, propertyInfo, loadPc, effectRerun, restVars >>
        /\ IF EffectThrows(request, propertyInfo, mockContractors)
             THEN /\ effectError' = TRUE
                  /\ UNCHANGED << serviceKey, inArea, candidates,
                                  suggestedContractors, areaContractors >>
             ELSE /\ effectError' = FALSE
                  /\ serviceKey' = key
                  /\ inArea' = inA
                  /\ candidates' = Candidates(inA, mockContractors)
                  /\ suggestedContractors' = Slice(scored)
                  /\ areaContractors' = scored

\* const scored = candidates.map(...) of the current state
ScoredNow ==
    Scored(Candidates(InArea(mockContractors, propertyInfo), mockContractors),
           ServiceKey(request))

\* a sort that puts ties in the reverse of their order
RECURSIVE SortPrefixUnstable(_, _)
SortPrefixUnstable(s, n) ==
    IF n = 0 THEN << >>
    ELSE InsertSortedUnstable(SortPrefixUnstable(s, n - 1), s[n])

\* the effect with a sort that orders ties one way or the other
RecommendEffectAnyTieOrder ==
    /\ effectPending
    /\ \E scored \in { SortScored(ScoredNow),
                       SortPrefixUnstable(ScoredNow, Len(ScoredNow)) } :
          EffectOutcome(scored, mockContractors)

\* the providers of ranked entries, without the fields the scoring adds
Unscored(s) ==
    [i \in 1..Len(s) |-> [id |-> s[i].id, rating |-> s[i].rating,
                          areas |-> s[i].areas, prices |-> s[i].prices]]

\* the effect sorting candidates in place: when candidates is the roster
\* array itself the roster is reordered
RecommendEffectSortInPlace ==
    /\ effectPending
    /\ LET sorted == SortScored(ScoredNow)
       IN  EffectOutcome(sorted,
               IF Len(sorted) = Len(mockContractors) THEN Unscored(sorted)
               ELSE mockContractors)

\* useEffect(() => { ... }, [propertyInfo, request?.title]), lines 96-138
RecommendEffect ==
    /\ effectPending
    /\ EffectOutcome(SortScored(ScoredNow), mockContractors)

----------------------------------------------------------------------------
(* Properties of the recommender *)

\* the ids of a list of providers or of ranked entries, in order
IdsOf(s) == [i \in 1..Len(s) |-> s[i].id]

\* s has the substring kw: s = u \o kw \o v for some u and v
Contains(s, kw) ==
    \E i \in 1..(Len(s) + 1) : \E j \in (i - 1)..Len(s) : SubSeq(s, i, j) = kw

\* the title the last run of the effect classified, lower-cased; a null
\* request, a missing title and an empty title count as the empty string
LoweredTitle ==
    toLowerCase(IF IsNull(request) \/ IsNull(request[1].title)
                  THEN << >> ELSE request[1].title[1])

\* C1: once the effect has run, the service category is plumbing if the
\* lower-cased title contains "toilet", "sink" or "plumb", otherwise electrical
\* if it contains "light" or "elect", otherwise general; it is never another
\* value, and a title with keywords of both kinds is plumbing.
C1_ServiceCategory ==
    ~effectPending =>
        /\ serviceKey \in {Plumbing, Electrical, General}
        /\ serviceKey =
             IF \E kw \in {kwToilet, kwSink, kwPlumb} : Contains(LoweredTitle, kw)
               THEN Plumbing
             ELSE IF \E kw \in {kwLight, kwElect} : Contains(LoweredTitle, kw)
               THEN Electrical
             ELSE General

\* a title with an electrical keyword in front of a plumbing keyword was
\* classified as plumbing
C1_Witness ==
    /\ ~effectPending
    /\ request = RequestOf(Some(frLight \o frSink))
    /\ serviceKey = Plumbing

\* the search string of a property: "<city> <address> <county>", lower-cased
SearchString(p) ==
    toLowerCase((IF IsNull(p.city) THEN << >> ELSE p.city[1]) \o << " " >>
                \o (IF IsNull(p.address) THEN << >> ELSE p.address[1]) \o << " " >>
                \o (IF IsNull(p.county) THEN << >> ELSE p.county[1]))

\* the roster positions of the providers that serve the property
Serving(p) ==
    { i \in 1..Len(mockContractors) :
        \E k \in 1..Len(mockContractors[i].areas) :
            Contains(SearchString(p), toLowerCase(mockContractors[i].areas[k])) }

\* the k-th smallest element of a set of positions
Kth(S, k) == CHOOSE i \in S : Cardinality({j \in S : j <= i}) = k

\* C2: without a property the area filter returns the whole roster; with a
\* property it returns exactly the providers with a service area whose
\* lower-cased text is a substring of the search string, in roster order.
C2_AreaFilter ==
    ~effectPending =>
        IF IsNull(propertyInfo)
          THEN inArea = mockContractors
          ELSE LET S == Serving(propertyInfo[1])
               IN  /\ Len(inArea) = Cardinality(S)
                   /\ \A k \in 1..Len(inArea) : inArea[k] = mockContractors[Kth(S, k)]

\* a property kept some providers of the roster and dropped others, one of
\* the kept ones through a service area written with capitals
C2_Witness ==
    /\ ~effectPending
    /\ ~IsNull(propertyInfo)
    /\ 0 < Len(inArea)
    /\ Len(inArea) < Len(mockContractors)
    /\ \E k \in 1..Len(inArea) : \A a \in 1..Len(inArea[k].areas) :
          /\ inArea[k].areas[a] # toLowerCase(inArea[k].areas[a])
          /\ ~Contains(SearchString(propertyInfo[1]), inArea[k].areas[a])

\* C3: the pool that is scored is non-empty whenever the roster is; it is
\* the whole roster, in order, if the area filter retains no provider, and
\* otherwise exactly the retained providers.
C3_AreaFallback ==
    ~effectPending =>
        /\ Len(mockContractors) > 0 => Len(candidates) > 0
        /\ inArea = << >> => candidates = mockContractors
        /\ inArea # << >> => candidates = inArea
        /\ Len(areaContractors) = Len(candidates)
        /\ {areaContractors[i].id : i \in 1..Len(areaContractors)}
             = {candidates[i].id : i \in 1..Len(candidates)}

\* a property that no provider of a roster of several serves: all are scored
C3_Witness ==
    /\ ~effectPending
    /\ ~IsNull(propertyInfo)
    /\ Serving(propertyInfo[1]) = {}
    /\ Len(mockContractors) > 1
    /\ candidates = mockContractors
    /\ Len(areaContractors) = Len(mockContractors)
\* the roster position of the provider with the given id
RosterPos(id) == CHOOSE i \in 1..Len(mockContractors) : mockContractors[i].id = id

\* the ranked entries' positions, and the resolved prices of the scored pool
Ranked == 1..Len(areaContractors)

PoolPrices == {areaContractors[i].price : i \in Ranked}

PoolMin == CHOOSE m \in PoolPrices : \A p \in PoolPrices : m <= p

PoolMax == CHOOSE m \in PoolPrices : \A p \in PoolPrices : m >= p

\* the rating of an entry in tenths, a missing rating counting as 0
RatingOf(e) == IF IsNull(e.rating) THEN 0 ELSE e.rating[1]

ExampleRoster == << Provider(1, ProfileA), Provider(2, ProfileB), Provider(3, ProfileC) >>

\* C5: in a pool whose resolved prices are not all equal, every candidate's
\* valueScore is 0.6 * rating / 5 + 0.4 * (maxPrice - price) / (maxPrice -
\* minPrice), the minimum and maximum being those of the pool's resolved
\* prices; and the example roster is ranked A, B, C for category general.
C5_ScoringFormula ==
    ~effectPending =>
        /\ Cardinality(PoolPrices) > 1 =>
             \A i \in Ranked :
                 LET e == areaContractors[i]
                     d == PoolMax - PoolMin
                 IN  e.valueScore
                       = Frac(3 * RatingOf(e) * d + 100 * (PoolMax - e.price), 250 * d)
        /\ (mockContractors = ExampleRoster /\ serviceKey = General
              /\ candidates = mockContractors)
             => IdsOf(areaContractors) = << "c1", "c2", "c3" >>

\* the example roster has been ranked for category general
C5_Witness ==
    /\ ~effectPending
    /\ mockContractors = ExampleRoster
    /\ serviceKey = General
    /\ IsNull(propertyInfo)
    /\ IdsOf(areaContractors) = << "c1", "c2", "c3" >>
    /\ Cardinality(PoolPrices) = 3

\* C6: in a pool whose resolved prices are all equal, a pool of one included,
\* every candidate's price score is 1: its valueScore is 0.6 * rating / 5 + 0.4,
\* a fraction with a non-zero denominator.
C6_DegeneratePrices ==
    ~effectPending =>
        (Cardinality(PoolPrices) = 1 =>
            \A i \in Ranked :
                LET e == areaContractors[i]
                IN  /\ e.valueScore.den > 0
                    /\ e.valueScore = Frac(3 * RatingOf(e) + 100, 250))

\* a pool of several candidates with one and the same resolved price
C6_Witness ==
    /\ ~effectPending
    /\ Len(areaContractors) > 1
    /\ Cardinality(PoolPrices) = 1
    /\ \E i, j \in Ranked : areaContractors[i].rating # areaContractors[j].rating

\* C7: every candidate whose rating lies in [0, 5] has 0 <= valueScore <= 1.
C7_ScoreBounds ==
    ~effectPending =>
        \A i \in Ranked :
            LET e == areaContractors[i]
            IN  (0 <= RatingOf(e) /\ RatingOf(e) <= 50) =>
                    /\ e.valueScore.den > 0
                    /\ 0 <= e.valueScore.num
                    /\ e.valueScore.num <= e.valueScore.den

\* a pool with prices that differ in which one candidate scores exactly 1
C7_Witness ==
    /\ ~effectPending
    /\ Cardinality(PoolPrices) > 1
    /\ \E i \in Ranked : areaContractors[i].valueScore = Frac(1, 1)
    /\ \E i \in Ranked : FracLess(areaContractors[i].valueScore, Frac(1, 2))

\* C8: the ranked list is in non-increasing valueScore order, and the
\* suggested list is its first min(3, n) entries: the 3 highest-scoring
\* candidates of the pool in descending order.
C8_RankingTopN ==
    ~effectPending =>
        /\ \A i \in Ranked : \A j \in Ranked :
              i < j => FracLeq(areaContractors[j].valueScore,
                               areaContractors[i].valueScore)
        /\ Len(suggestedContractors)
             = (IF Len(areaContractors) < 3 THEN Len(areaContractors) ELSE 3)
        /\ \A k \in 1..Len(suggestedContractors) :
              suggestedContractors[k] = areaContractors[k]
        /\ \A k \in 1..Len(suggestedContractors) : \A j \in Ranked :
              j > Len(suggestedContractors) =>
                  FracLeq(areaContractors[j].valueScore,
                          suggestedContractors[k].valueScore)

\* a pool of more than 3 candidates, ranked in another order than the
\* roster's, of which the fourth scores strictly less than the third
C8_Witness ==
    /\ ~effectPending
    /\ Len(areaContractors) > 3
    /\ Len(suggestedContractors) = 3
    /\ IdsOf(areaContractors) # IdsOf(candidates)
    /\ FracLess(areaContractors[4].valueScore, areaContractors[3].valueScore)

\* C9: two candidates with equal valueScore are ranked in the relative order
\* in which they stand in the roster.
C9_StableTies ==
    ~effectPending =>
        \A i \in Ranked : \A j \in Ranked :
            (i < j /\ areaContractors[i].valueScore = areaContractors[j].valueScore)
                => RosterPos(areaContractors[i].id) < RosterPos(areaContractors[j].id)

\* two candidates tie, and the sort has moved a candidate that stands
\* between them in the roster
C9_Witness ==
    /\ ~effectPending
    /\ \E i \in Ranked : \E j \in Ranked : \E k \in Ranked :
          /\ i < j
          /\ areaContractors[i].valueScore = areaContractors[j].valueScore
          /\ RosterPos(areaContractors[i].id) < RosterPos(areaContractors[k].id)
          /\ RosterPos(areaContractors[k].id) < RosterPos(areaContractors[j].id)
          /\ (k < i \/ k > j)

\* C10: the ranked list has one entry per candidate of the pool: the same
\* length and the same ids, none dropped and none twice, also for a provider
\* without any quote.
C10_LengthPreserved ==
    ~effectPending =>
        /\ Len(areaContractors) = Len(candidates)
        /\ \A k \in 1..Len(candidates) :
              Cardinality({i \in Ranked : areaContractors[i].id = candidates[k].id}) = 1
        /\ \A i \in Ranked :
              \E k \in 1..Len(candidates) : candidates[k].id = areaContractors[i].id

\* a pool of several candidates, one of them without a price table, ranked
C10_Witness ==
    /\ ~effectPending
    /\ Len(candidates) > 1
    /\ \E k \in 1..Len(candidates) :
          /\ IsNull(candidates[k].prices)
          /\ \E i \in Ranked :
                /\ areaContractors[i].id = candidates[k].id
                /\ areaContractors[i].price = SentinelPrice

\* x dominates y: its rating is at least y's and its resolved price at most
\* y's, one of the two strictly
Dominates(x, y) ==
    /\ RatingOf(x) >= RatingOf(y)
    /\ x.price <= y.price
    /\ (RatingOf(x) > RatingOf(y) \/ x.price < y.price)

\* C25: of two candidates of the same pool, one whose rating is at least the
\* other's and whose resolved price is at most the other's, one of the two
\* strictly, stands before the other in the ranked list.
C25_Dominance ==
    ~effectPending =>
        \A i \in Ranked : \A j \in Ranked :
            Dominates(areaContractors[i], areaContractors[j]) => i < j

\* a ranked pool in which a candidate stands before one of the same rating
\* and a higher price, and a candidate stands before one of the same price
\* and a lower rating, each time against the order of the roster
C25_Witness ==
    /\ ~effectPending
    /\ ~effectError
    /\ \E i \in Ranked : \E j \in Ranked :
          /\ i < j
          /\ RatingOf(areaContractors[i]) = RatingOf(areaContractors[j])
          /\ areaContractors[i].price < areaContractors[j].price
          /\ RosterPos(areaContractors[i].id) > RosterPos(areaContractors[j].id)
    /\ \E i \in Ranked : \E j \in Ranked :
          /\ i < j
          /\ RatingOf(areaContractors[i]) > RatingOf(areaContractors[j])
          /\ areaContractors[i].price = areaContractors[j].price
          /\ RosterPos(areaContractors[i].id) > RosterPos(areaContractors[j].id)

----------------------------------------------------------------------------
(* Properties of the recommender's runs *)

\* C17: the recommender never throws, whatever is missing or empty among
\* its inputs (no request or no title, no property, a property without
\* fields, a provider without the quote or without a price table, an empty
\* roster), and an empty roster gives an empty ranked list.
C17_Totality ==
    ~effectPending =>
        /\ ~effectError
        /\ mockContractors = << >>
             => (areaContractors = << >> /\ suggestedContractors = << >>)

\* the effect has run on an empty roster and a property with the city only
C17_Witness ==
    /\ ~effectPending
    /\ mockContractors = << >>
    /\ propertyInfo = PropLA
    /\ ~effectError
    /\ areaContractors = << >>

C19_NoMutation ==
    [][(effectPending /\ ~effectPending')
          => /\ mockContractors' = mockContractors
             /\ request' = request
             /\ propertyInfo' = propertyInfo]_vars

\* the candidates are the whole roster and their ranking is not its order
C19_Witness ==
    /\ ~effectPending
    /\ Len(candidates) = Len(mockContractors)
    /\ Len(areaContractors) = Len(mockContractors)
    /\ IdsOf(areaContractors) # IdsOf(mockContractors)
    /\ \A i \in 1..Len(mockContractors) :
          DOMAIN mockContractors[i] = {"id", "rating", "areas", "prices"}

----------------------------------------------------------------------------
(* Maintenance requests and their chat rooms *)

MaxRequests == 1

RequestIds == 1..MaxRequests

\* the users and the property of the scenario
Tenant == "t1"
CoTenant == "t2"
Landlord == "l1"
Contractors == {"k1"}

\* the property p1: getPropertyByPropertyId and getPropertyTenants
PropertyP1 == [landlordId |-> Landlord, tenants |-> {Tenant, CoTenant}]

\* a JavaScript null stored in a members array
NullId == "null"

\* callers' requestData: with or without title and description, landlordId
\* and propertyId; tenantId is the tenant
RequestDatas ==
    [titled : BOOLEAN, landlordId : {Null, Some(Landlord)},
     propertyId : {Null, Some("p1")}]

NoData == [titled |-> FALSE, landlordId |-> Null, propertyId |-> Null]

IdleCreate ==
    [pc |-> "idle", data |-> NoData, finalLandlordId |-> Null, members |-> {}]

IdleAssign == [pc |-> "idle", contractorId |-> NullId, roomId |-> 0]

DbInit ==
    /\ requests = [i \in RequestIds |-> Null]
    /\ rooms = << >>
    /\ createCall = [i \in RequestIds |-> IdleCreate]
    /\ assignCall = [i \in RequestIds |-> IdleAssign]
    /\ onCreatePending = {}
    /\ onUpdatePending = {}

\* query(roomsRef, where('maintenanceRequestId', '==', requestId)).docs
RoomsOf(i) == SelectSeq(rooms, LAMBDA r : r.maintenanceRequestId = i)

\* addDoc(roomsRef, roomData): the automatic id places the document anywhere
\* in the order of the collection
AddRoom(members, i) ==
    \E pos \in 1..(Len(rooms) + 1) :
        rooms' = [j \in 1..(Len(rooms) + 1) |->
                    IF j < pos THEN rooms[j]
                    ELSE IF j = pos
                         THEN [id |-> Len(rooms) + 1, members |-> members,
                               maintenanceRequestId |-> i]
                         ELSE rooms[j - 1]]

\* updateDoc(roomRef, { members: arrayUnion(userId) })
WithMember(rid, userId) ==
    [j \in 1..Len(rooms) |->
        IF rooms[j].id = rid
        THEN [rooms[j] EXCEPT !.members = @ \cup {userId}]
        ELSE rooms[j]]

\* createMaintenanceRequest, lines 48-50: the validation (a call is made
\* for a request id no earlier call has made)
CreateStart(i, data) ==
    /\ createCall[i].pc = "idle"
    /\ createCall' = [createCall EXCEPT ![i] =
           [@ EXCEPT !.pc = IF data.titled THEN "resolve" ELSE "threw",
                     !.data = data]]
    /\ UNCHANGED << requests, rooms, assignCall, onCreatePending,
                    onUpdatePending, nonDbVars >>

\* createMaintenanceRequest, lines 53-66: finalLandlordId; the read of the
\* property may fail and the failure is swallowed
CreateResolve(i) ==
    /\ createCall[i].pc = "resolve"
    /\ LET d == createCall[i].data
       IN  \E final \in
               IF IsNull(d.landlordId) /\ ~IsNull(d.propertyId)
               THEN {Some(PropertyP1.landlordId), Null}
               ELSE {d.landlordId} :
             createCall' = [createCall EXCEPT ![i] =
                 [@ EXCEPT !.pc = "add", !.finalLandlordId = final]]
    /\ UNCHANGED << requests, rooms, assignCall, onCreatePending,
                    onUpdatePending, nonDbVars >>

\* createMaintenanceRequest, lines 69-86: addDoc of the request document,
\* which owes the onCreate trigger
CreateAdd(i) ==
    /\ createCall[i].pc = "add"
    /\ requests' = [requests EXCEPT ![i] =
           Some([tenantId |-> Tenant,
                 landlordId |-> createCall[i].finalLandlordId,
                 status |-> "open",
                 contractorId |-> Null])]
    /\ onCreatePending' = onCreatePending \cup {i}
    /\ createCall' = [createCall EXCEPT ![i].pc = "members"]
    /\ UNCHANGED << rooms, assignCall, onUpdatePending, nonDbVars >>

\* createChatRoomForRequest, lines 275-295: members from the caller's
\* requestData, and the tenants of the property when they can be read
CreateMembers(i) ==
    /\ createCall[i].pc = "members"
    /\ LET d    == createCall[i].data
           base == {Tenant} \cup
                   (IF IsNull(d.landlordId) THEN {} ELSE {d.landlordId[1]})
       IN  \E more \in
               IF IsNull(d.propertyId) THEN {{}} ELSE {PropertyP1.tenants, {}} :
             createCall' = [createCall EXCEPT ![i] =
                 [@ EXCEPT !.pc = "room_query", !.members = base \cup more]]
    /\ UNCHANGED << requests, rooms, assignCall, onCreatePending,
                    onUpdatePending, nonDbVars >>

\* createChatRoom, lines 337-343: return the room the request already has
CreateRoomQuery(i) ==
    /\ createCall[i].pc = "room_query"
    /\ createCall' = [createCall EXCEPT ![i].pc =
           IF RoomsOf(i) # << >> THEN "returned" ELSE "room_add"]
    /\ UNCHANGED << requests, rooms, assignCall, onCreatePending,
                    onUpdatePending, nonDbVars >>

\* createChatRoom, lines 362-372: addDoc of the room
CreateRoomAdd(i) ==
    /\ createCall[i].pc = "room_add"
    /\ AddRoom(createCall[i].members, i)
    /\ createCall' = [createCall EXCEPT ![i].pc = "returned"]
    /\ UNCHANGED << requests, assignCall, onCreatePending, onUpdatePending,
                    nonDbVars >>

\* createMaintenanceRequest, lines 89-96: a rejected getDocs or addDoc of
\* createChatRoom is caught and the request id is returned all the same
CreateRoomFails(i) ==
    /\ createCall[i].pc \in {"room_query", "room_add"}
    /\ createCall' = [createCall EXCEPT ![i].pc = "returned"]
    /\ UNCHANGED << requests, rooms, assignCall, onCreatePending,
                    onUpdatePending, nonDbVars >>

\* functions/index.js, onCreateMaintenanceRequest: a room is added without
\* looking for one
OnCreateMaintenanceRequest(i) ==
    /\ i \in onCreatePending
    /\ LET doc == requests[i][1]
       IN  AddRoom({doc.tenantId,
                    IF IsNull(doc.landlordId) THEN NullId ELSE doc.landlordId[1]},
                   i)
    /\ onCreatePending' = onCreatePending \ {i}
    /\ UNCHANGED << requests, createCall, assignCall, onUpdatePending, nonDbVars >>

\* the buttons of the dashboards: Start on an open request, Mark Complete
\* on one in progress
Offered(status) ==
    IF status = "open" THEN {"in_progress"}
    ELSE IF status = "in_progress" THEN {"complete"}
    ELSE {}

\* updateRequestStatus(requestId, status) as the dashboards call it
updateRequestStatus(i, status) ==
    /\ ~IsNull(requests[i])
    /\ status \in Offered(requests[i][1].status)
    /\ requests' = [requests EXCEPT ![i] = Some([@[1] EXCEPT !.status = status])]
    /\ UNCHANGED << rooms, createCall, assignCall, onCreatePending,
                    onUpdatePending, nonDbVars >>

\* assignContractor, lines 225-231: updateDoc of the request, which owes the
\* onUpdate trigger when the request had no contractor
AssignStart(i, k) ==
    /\ assignCall[i].pc \in {"idle", "done", "threw"}
    /\ ~IsNull(requests[i])
    /\ requests' = [requests EXCEPT ![i] =
           Some([@[1] EXCEPT !.contractorId = Some(k), !.status = "in_progress"])]
    /\ onUpdatePending' =
           IF IsNull(requests[i][1].contractorId)
           THEN onUpdatePending \cup {<< i, k >>}
           ELSE onUpdatePending
    /\ assignCall' = [assignCall EXCEPT ![i] =
           [pc |-> "lookup", contractorId |-> k, roomId |-> 0]]
    /\ UNCHANGED << rooms, createCall, onCreatePending, nonDbVars >>

\* addContractorToChatRoom, lines 303-307: the query; with no room the call
\* is complete
AssignLookup(i) ==
    /\ assignCall[i].pc = "lookup"
    /\ assignCall' = [assignCall EXCEPT ![i] =
           IF RoomsOf(i) = << >>
           THEN [@ EXCEPT !.pc = "done"]
           ELSE [@ EXCEPT !.pc = "add", !.roomId = RoomsOf(i)[1].id]]
    /\ UNCHANGED << requests, rooms, createCall, onCreatePending,
                    onUpdatePending, nonDbVars >>

\* addContractorToChatRoom, lines 308-309: addMemberToRoom(roomDoc.id, contractorId)
AssignAdd(i) ==
    /\ assignCall[i].pc = "add"
    /\ rooms' = WithMember(assignCall[i].roomId, assignCall[i].contractorId)
    /\ assignCall' = [assignCall EXCEPT ![i].pc = "done"]
    /\ UNCHANGED << requests, createCall, onCreatePending, onUpdatePending,
                    nonDbVars >>

\* a rejected updateDoc of addMemberToRoom rejects assignContractor
AssignAddFails(i) ==
    /\ assignCall[i].pc = "add"
    /\ assignCall' = [assignCall EXCEPT ![i].pc = "threw"]
    /\ UNCHANGED << requests, rooms, createCall, onCreatePending,
                    onUpdatePending, nonDbVars >>

\* clearContractor, lines 241-250, on the button the detail page shows for
\* a request with a contractor
clearContractor(i) ==
    /\ ~IsNull(requests[i])
    /\ ~IsNull(requests[i][1].contractorId)
    /\ requests' = [requests EXCEPT ![i] =
           Some([@[1] EXCEPT !.contractorId = Null, !.status = "open"])]
    /\ UNCHANGED << rooms, createCall, assignCall, onCreatePending,
                    onUpdatePending, nonDbVars >>

\* functions/index.js, onUpdateMaintenanceRequest: arrayUnion into docs[0]
OnUpdateMaintenanceRequest(i, k) ==
    /\ << i, k >> \in onUpdatePending
    /\ rooms' = IF RoomsOf(i) = << >> THEN rooms
                ELSE WithMember(RoomsOf(i)[1].id, k)
    /\ onUpdatePending' = onUpdatePending \ {<< i, k >>}
    /\ UNCHANGED << requests, createCall, assignCall, onCreatePending, nonDbVars >>

-----------------------------------------------------------------------------
(* The chat button of the maintenance request detail page *)

\* the locals of handleOpenChat: the members of a room to create, or the
\* room found and the users still to add to it
IdleOpen == [pc |-> "idle", members |-> {}, roomId |-> 0, toAdd |-> {}]

ChatInit == openCall = [i \in RequestIds |-> IdleOpen]

\* what handleOpenChat leaves alone
openChatUnchanged ==
    << requests, createCall, assignCall, onCreatePending, onUpdatePending,
       nonChatVars >>

\* handleOpenChat, lines 140-145, on the page of a loaded request whose
\* state propertyTenants holds the tenants of the property or nothing.
\* members and toAdd carry what lines 149-163 and 169-180 take from the
\* request and from propertyTenants.
handleOpenChat(i, tenants) ==
    /\ openCall[i].pc = "idle"
    /\ ~IsNull(requests[i])
    /\ LET doc        == requests[i][1]
           contractor == IF IsNull(doc.contractorId) THEN {}
                         ELSE {doc.contractorId[1]}
       IN  openCall' = [openCall EXCEPT ![i] =
               [pc |-> "find",
                members |-> {doc.tenantId,
                             IF IsNull(doc.landlordId) THEN NullId
                             ELSE doc.landlordId[1]}
                            \cup tenants \cup contractor,
                roomId |-> 0,
                toAdd |-> tenants \cup contractor]]
    /\ UNCHANGED << rooms, openChatUnchanged >>

\* handleOpenChat, lines 145-147 and 167-183: getChatRoomByRequestId; a room
\* found with nobody to add ends the call
OpenChatFind(i) ==
    /\ openCall[i].pc = "find"
    /\ openCall' = [openCall EXCEPT ![i] =
           IF RoomsOf(i) = << >>
           THEN [@ EXCEPT !.pc = "room_query", !.toAdd = {}]
           ELSE IF openCall[i].toAdd \subseteq RoomsOf(i)[1].members
           THEN IdleOpen
           ELSE [@ EXCEPT !.pc = "ensure", !.members = {},
                          !.roomId = RoomsOf(i)[1].id,
                          !.toAdd = @ \ RoomsOf(i)[1].members]]
    /\ UNCHANGED << rooms, openChatUnchanged >>

\* createChatRoom, lines 333-343, called at line 165: the check
OpenChatRoomQuery(i) ==
    /\ openCall[i].pc = "room_query"
    /\ openCall' = [openCall EXCEPT ![i] =
           IF RoomsOf(i) # << >> THEN IdleOpen ELSE [@ EXCEPT !.pc = "room_add"]]
    /\ UNCHANGED << rooms, openChatUnchanged >>

\* createChatRoom, lines 365-372: addDoc of the room
OpenChatRoomAdd(i) ==
    /\ openCall[i].pc = "room_add"
    /\ AddRoom(openCall[i].members, i)
    /\ openCall' = [openCall EXCEPT ![i] = IdleOpen]
    /\ UNCHANGED openChatUnchanged

\* handleOpenChat, lines 169-180: addMemberToRoom for the next user the
\* room found lacked, the tenants first and the contractor last
OpenChatEnsure(i, u) ==
    /\ openCall[i].pc = "ensure"
    /\ u \in openCall[i].toAdd
    /\ u \in Contractors => openCall[i].toAdd = {u}
    /\ rooms' = WithMember(openCall[i].roomId, u)
    /\ openCall' = [openCall EXCEPT ![i] =
           IF openCall[i].toAdd = {u} THEN IdleOpen ELSE [@ EXCEPT !.toAdd = @ \ {u}]]
    /\ UNCHANGED openChatUnchanged

----------------------------------------------------------------------------
(* AuthContext and ProtectedRoute *)

Uids == {"u1", "u2"}
Roles == {"tenant", "landlord"}

\* a || b on strings that are null or not empty
OrElse(a, b) == IF IsNull(a) THEN b ELSE a

\* ProtectedRoute with a null userRole let through the role test
ProtectedRouteNullRolePasses(load, user, role, required) ==
    IF load THEN "loading"
    ELSE IF IsNull(user) THEN "/login"
    ELSE IF ~IsNull(required) /\ ~IsNull(role) /\ role[1] \notin required[1]
         THEN "/unauthorized"
    ELSE "children"

\* ProtectedRoute({ children, requiredRoles }), lines 9-30: what it returns
ProtectedRoute(load, user, role, required) ==
    IF load THEN "loading"
    ELSE IF IsNull(user) THEN "/login"
    ELSE IF ~IsNull(required) /\ ~(~IsNull(role) /\ role[1] \in required[1])
         THEN "/unauthorized"
    ELSE "children"

\* the requiredRoles of the routes of App: none, or ['tenant']
RouteRoles == {Null, Some({"tenant"})}

\* the render that follows a change of the context or of the route
Render ==
    rendered' = ProtectedRoute(loading', currentUser', userRole', requiredRoles')

EmptyStorage ==
    [pendingRoleUid |-> Null, pendingRole |-> Null,
     userRole |-> [u \in Uids |-> Null]]

IdleCallback ==
    [pc |-> "idle", uid |-> "u1", claims |-> Null, doc |-> Null, role |-> Null]

AuthInit ==
    /\ currentUser = Null
    /\ userRole = Null
    /\ loading = TRUE
    /\ authCallback = IdleCallback
    /\ localStorage = EmptyStorage
    /\ sessionStorage = EmptyStorage
    /\ requiredRoles = Null
    /\ rendered = "loading"

\* the role a user chose in the signup form
SignupRole(uid) == IF uid = "u1" THEN "tenant" ELSE "landlord"

\* Signup.handleSubmit, lines 60-67: the role of the user just created goes
\* to both storages, under userRole_<uid> and as the pending role
storeRole(uid) ==
    /\ currentUser = Some(uid)
    /\ LET put(st) == [pendingRoleUid |-> Some(uid),
                       pendingRole |-> Some(SignupRole(uid)),
                       userRole |-> [st.userRole EXCEPT ![uid] = Some(SignupRole(uid))]]
       IN  /\ localStorage' = put(localStorage)
           /\ sessionStorage' = put(sessionStorage)
    /\ UNCHANGED << currentUser, userRole, loading, authCallback, requiredRoles,
                    rendered, nonAuthVars >>

\* the router shows another route
navigate(required) ==
    /\ required # requiredRoles
    /\ requiredRoles' = required
    /\ UNCHANGED << currentUser, userRole, loading, authCallback, localStorage,
                    sessionStorage, nonAuthVars >>
    /\ Render

\* onAuthStateChanged callback, lines 33-35 and 110-114: with no user the
\* three states are set; with a user currentUser is set and the callback
\* awaits getIdTokenResult
onAuthStateChanged(user) ==
    /\ authCallback.pc \in {"idle", "done"}
    /\ (authCallback.pc = "idle" \/ user # currentUser)
    /\ currentUser' = user
    /\ IF IsNull(user)
         THEN /\ userRole' = Null
              /\ loading' = FALSE
              /\ authCallback' = [authCallback EXCEPT !.pc = "done"]
         ELSE /\ UNCHANGED << userRole, loading >>
              /\ authCallback' = [IdleCallback EXCEPT !.pc = "claims",
                                                        !.uid = user[1]]
    /\ UNCHANGED << localStorage, sessionStorage, requiredRoles, nonAuthVars >>
    /\ Render

\* lines 53-68: the pending role of this uid in the two storages
PendingRole(uid) ==
    IF OrElse(localStorage.pendingRoleUid, sessionStorage.pendingRoleUid) = Some(uid)
    THEN OrElse(localStorage.pendingRole, sessionStorage.pendingRole)
    ELSE Null

\* lines 59-65: the pending role moved to userRole_<uid>, the pending keys removed
MovePending(st, uid, role) ==
    [pendingRoleUid |-> Null, pendingRole |-> Null,
     userRole |-> [st.userRole EXCEPT ![uid] = role]]

\* line 72: userRole_<uid> in the two storages
StoredRole(uid) ==
    OrElse(localStorage.userRole[uid], sessionStorage.userRole[uid])

\* RoleFromStorage with the pending role consulted before the claims
RoleFromStoragePendingFirst(role, uid) ==
    IF ~IsNull(PendingRole(uid)) THEN PendingRole(uid)
    ELSE IF ~IsNull(role) THEN role
    ELSE StoredRole(uid)

\* lines 51-78: the role after the storage block, given the role of the claims
RoleFromStorage(role, uid) ==
    IF ~IsNull(role) THEN role
    ELSE IF ~IsNull(PendingRole(uid)) THEN PendingRole(uid)
    ELSE StoredRole(uid)

\* lines 98-109: setUserRole(role); setLoading(false)
Resolved(tokenRole, docRole, role) ==
    /\ userRole' = role
    /\ loading' = FALSE
    /\ authCallback' = [authCallback EXCEPT !.pc = "done", !.claims = tokenRole,
                                            !.doc = docRole, !.role = role]

\* lines 43-78, and 98-109 when the Firestore read is not awaited: the
\* claims arrive (tokenRole is null for no role claim and for a rejected
\* getIdTokenResult) and the storages are consulted
claimsRead(tokenRole) ==
    /\ authCallback.pc = "claims"
    /\ LET uid  == authCallback.uid
           role == RoleFromStorage(tokenRole, uid)
       IN  /\ IF IsNull(tokenRole) /\ ~IsNull(PendingRole(uid))
                THEN /\ localStorage' = MovePending(localStorage, uid, role)
                     /\ sessionStorage' = MovePending(sessionStorage, uid, role)
                ELSE UNCHANGED << localStorage, sessionStorage >>
           /\ IF IsNull(role)
                THEN /\ authCallback' = [authCallback EXCEPT !.pc = "firestore"]
                     /\ UNCHANGED << userRole, loading >>
                ELSE Resolved(tokenRole, Null, role)
    /\ UNCHANGED << currentUser, requiredRoles, nonAuthVars >>
    /\ Render

\* lines 81-109: the user's document arrives (docRole is null for no
\* document, a document without role and a rejected getDoc); its role is
\* cached under userRole_<uid> of localStorage
firestoreRead(docRole) ==
    /\ authCallback.pc = "firestore"
    /\ localStorage' =
          IF ~IsNull(docRole)
          THEN [localStorage EXCEPT !.userRole[authCallback.uid] = docRole]
          ELSE localStorage
    /\ Resolved(Null, docRole, docRole)
    /\ UNCHANGED << currentUser, sessionStorage, requiredRoles, nonAuthVars >>
    /\ Render

----------------------------------------------------------------------------
(* Properties of the maintenance requests *)

\* the place of a status in the flow open -> in_progress -> complete
StatusRank(status) ==
    CASE status = "open" -> 0
      [] status = "in_progress" -> 1
      [] status = "complete" -> 2

\* C11: a request is created with status open, and no step of
\* updateRequestStatus (as the dashboards offer it), assignContractor or
\* clearContractor moves its status to an earlier place of the flow
\* open -> in_progress -> complete.
C11_StatusFlow ==
    [][\A i \in RequestIds :
          /\ (IsNull(requests[i]) /\ ~IsNull(requests'[i]))
                => requests'[i][1].status = "open"
          /\ ~IsNull(requests[i])
                => /\ ~IsNull(requests'[i])
                   /\ StatusRank(requests'[i][1].status)
                        >= StatusRank(requests[i][1].status)]_vars

\* C12: whenever createMaintenanceRequest has returned a request id, a chat
\* room whose maintenanceRequestId is that id exists.
C12_AutomaticRoom ==
    \A i \in RequestIds :
        createCall[i].pc = "returned" => RoomsOf(i) # << >>

\* C13: every chat room of a request has among its members the tenant of
\* the stored request and, when the stored request has a landlordId, that
\* landlord, whether the caller gave the landlordId or the property did.
C13_RoomMembers ==
    \A j \in 1..Len(rooms) :
        LET doc == requests[rooms[j].maintenanceRequestId][1]
        IN  /\ doc.tenantId \in rooms[j].members
            /\ ~IsNull(doc.landlordId) => doc.landlordId[1] \in rooms[j].members

\* C14: once assignContractor(requestId, contractorId) has completed without
\* error, contractorId is a member of the chat room of that request: of the
\* room a query for the request's rooms returns first, when there is a room
\* and the onUpdate trigger of the assignment is no longer owed.
C14_ContractorJoins ==
    \A i \in RequestIds :
        (/\ assignCall[i].pc = "done"
         /\ << i, assignCall[i].contractorId >> \notin onUpdatePending
         /\ RoomsOf(i) # << >>)
            => assignCall[i].contractorId \in RoomsOf(i)[1].members

\* C23: there is at most one chat room with a given maintenanceRequestId,
\* whatever the interleaving of createMaintenanceRequest's room creation,
\* the onCreate trigger and the handleOpenChat calls for the request.
C23_OneRoomPerRequest == \A i \in RequestIds : Len(RoomsOf(i)) <= 1

----------------------------------------------------------------------------
(* Properties of the authentication *)

\* the user's role is one of the roles a route asks for
RoleAllowed == ~IsNull(userRole) /\ userRole[1] \in requiredRoles[1]

\* C15: ProtectedRoute returns its children only when loading has finished,
\* a user is signed in and, if requiredRoles is given, the user's role is
\* one of them; once loading has finished it redirects to /login with no
\* signed-in user, and to /unauthorized with a signed-in user whose role,
\* null included, is not one of the requiredRoles given.
C15_ProtectedRoute ==
    /\ rendered = "children"
          => /\ ~loading
             /\ ~IsNull(currentUser)
             /\ ~IsNull(requiredRoles) => RoleAllowed
    /\ (~loading /\ IsNull(currentUser)) => rendered = "/login"
    /\ (~loading /\ ~IsNull(currentUser) /\ ~IsNull(requiredRoles) /\ ~RoleAllowed)
          => rendered = "/unauthorized"

\* a signed-in user with a null role is sent to /unauthorized by a route
\* that asks for a role
C15_Witness ==
    /\ ~loading
    /\ ~IsNull(currentUser)
    /\ IsNull(userRole)
    /\ ~IsNull(requiredRoles)
    /\ rendered = "/unauthorized"

\* the first role of a list of sources, null when none has one
RECURSIVE FirstRole(_)
FirstRole(sources) ==
    IF sources = << >> THEN Null
    ELSE IF ~IsNull(Head(sources)) THEN Head(sources)
    ELSE FirstRole(Tail(sources))

\* C16: the callback for a signed-in user sets userRole to the role of the
\* first source that has one, in the order token claims, pending role of
\* this uid, userRole_<uid>, Firestore document: it reads the document only
\* when the three sources before it have no role, and sets null only when
\* none has one.
C16_RoleOrder ==
    [][LET uid   == authCallback.uid
           early == FirstRole(<< authCallback'.claims, PendingRole(uid),
                                 StoredRole(uid) >>)
       IN  /\ (authCallback.pc = "claims" /\ authCallback'.pc = "done")
                 => (~IsNull(early) /\ userRole' = early)
           /\ (authCallback.pc = "claims" /\ authCallback'.pc = "firestore")
                 => (IsNull(early) /\ userRole' = userRole)
           /\ (authCallback.pc = "firestore" /\ authCallback'.pc = "done")
                 => userRole' = authCallback'.doc]_vars

\* the claims say landlord and the storages hold the pending role tenant
\* of the same user: the role is landlord and the pending role is not used
C16_Witness ==
    /\ authCallback.pc = "done"
    /\ authCallback.uid = "u1"
    /\ currentUser = Some("u1")
    /\ authCallback.claims = Some("landlord")
    /\ PendingRole("u1") = Some("tenant")
    /\ userRole = Some("landlord")

----------------------------------------------------------------------------
(* Invites *)

MaxInvites == 2

MaxInviteCalls == 2

InviteCallers == 1..MaxInviteCalls

InviteLandlords == {"l1", "l2"}

\* s.trim()
RECURSIVE trim(_)
trim(s) ==
    IF s = << >> THEN s
    ELSE IF Head(s) = " " THEN trim(Tail(s))
    ELSE IF s[Len(s)] = " " THEN trim(SubSeq(s, 1, Len(s) - 1))
    ELSE s

\* tenantEmail.toLowerCase().trim(), line 34
normalizedEmail(tenantEmail) == trim(toLowerCase(tenantEmail))

\* tenant emails as landlords type them
TenantEmails == { << "a" >>, << " ", "A" >>, << "b" >> }

\* the property a landlord invites to, and its tenants to be
InvitedProperty == "p1"
TenantUsers == {"t1"}

\* the locals of handleSelectProperty: the tenants of the accepted invites
\* still to look at, and the one about to be added
IdleSelect == [pc |-> "idle", todo |-> {}, tenantId |-> "t1"]

\* the locals of syncAllPropertiesTenants: the tenants of the accepted
\* invites, those of them still to add, the members of the landlord's chat
\* rooms still to look at, and the one about to be added
IdleSyncAll ==
    [pc |-> "idle", invited |-> {}, todo |-> {}, chats |-> {},
     tenantId |-> "t1"]

\* the locals of handleRemoveTenant
IdleRemove == [pc |-> "idle", tenantId |-> "t1"]

IdleInvite ==
    [pc |-> "idle", landlordId |-> "l1", tenantEmail |-> << >>,
     propertyId |-> Null]

\* the locals of acceptInvite: inviteId, tenantId, and of inviteData the
\* propertyId and whether the status was pending
IdleAccept ==
    [pc |-> "idle", inviteId |-> 0, tenantId |-> "t1", propertyId |-> Null,
     wasPending |-> FALSE]

InvInit ==
    /\ invites = << >>
    /\ inviteCall = [c \in InviteCallers |-> IdleInvite]
    /\ acceptCall = IdleAccept

TenInit ==
    /\ tenantIds = {}
    /\ userProperty = [t \in TenantUsers |-> Null]
    /\ removedTenants = {}
    /\ selectAfter = {}
    /\ syncAllAfter = {}
    /\ selectedProperty = Null
    /\ selectCall = IdleSelect
    /\ syncAllCall = IdleSyncAll
    /\ removeCall = IdleRemove

\* the pending invites of a landlord for a normalized email: the query of
\* lines 37-43
PendingInvites(landlordId, email) ==
    { i \in 1..Len(invites) :
        /\ invites[i].landlordId = landlordId
        /\ invites[i].tenantEmail = email
        /\ invites[i].status = "pending" }

\* createInvite, lines 30-34: the call and its normalized email
createInvite(c, landlordId, tenantEmail, propertyId) ==
    /\ inviteCall[c].pc \in {"idle", "returned", "threw"}
    /\ inviteCall' = [inviteCall EXCEPT ![c] =
           [pc |-> "query", landlordId |-> landlordId,
            tenantEmail |-> normalizedEmail(tenantEmail),
            propertyId |-> propertyId]]
    /\ UNCHANGED << invites, acceptCall, tenVars, nonInvVars >>

\* createInvite, lines 43-47: getDocs, and the throw when a pending invite
\* is there
InviteQuery(c) ==
    /\ inviteCall[c].pc = "query"
    /\ inviteCall' = [inviteCall EXCEPT ![c] =
           IF PendingInvites(inviteCall[c].landlordId,
                             inviteCall[c].tenantEmail) # {}
           THEN [IdleInvite EXCEPT !.pc = "threw"]
           ELSE [@ EXCEPT !.pc = "add"]]
    /\ UNCHANGED << invites, acceptCall, tenVars, nonInvVars >>

\* createInvite, lines 49-60: addDoc
InviteAdd(c) ==
    /\ inviteCall[c].pc = "add"
    /\ Len(invites) < MaxInvites
    /\ invites' = Append(invites,
           [landlordId |-> inviteCall[c].landlordId,
            tenantEmail |-> inviteCall[c].tenantEmail,
            propertyId |-> inviteCall[c].propertyId,
            status |-> "pending",
            tenantId |-> Null])
    /\ inviteCall' = [inviteCall EXCEPT ![c] = [IdleInvite EXCEPT !.pc = "returned"]]
    /\ UNCHANGED << acceptCall, tenVars, nonInvVars >>

\* acceptInvite after it returned or threw
Ended(pc) == [IdleAccept EXCEPT !.pc = pc]

\* acceptInvite, lines 112-126: getDoc; an accepted invite ends the call
AcceptRead(i, tenantId) ==
    /\ acceptCall.pc \in {"idle", "returned", "threw"}
    /\ i \in 1..Len(invites)
    /\ acceptCall' =
          IF invites[i].status = "accepted"
          THEN Ended("returned")
          ELSE [pc |-> "update", inviteId |-> i, tenantId |-> tenantId,
                propertyId |-> invites[i].propertyId,
                wasPending |-> (invites[i].status = "pending")]
    /\ UNCHANGED << invites, inviteCall, tenVars, nonInvVars >>

\* acceptInvite, lines 128-135: updateDoc of the invite
AcceptUpdate ==
    /\ acceptCall.pc = "update"
    /\ invites' = [invites EXCEPT ![acceptCall.inviteId] =
           [@ EXCEPT !.status = "accepted", !.tenantId = Some(acceptCall.tenantId)]]
    /\ acceptCall' = [acceptCall EXCEPT !.pc = "user"]
    /\ removedTenants' = removedTenants \ {acceptCall.tenantId}
    /\ selectAfter' = selectAfter \ {acceptCall.tenantId}
    /\ syncAllAfter' = syncAllAfter \ {acceptCall.tenantId}
    /\ UNCHANGED << inviteCall, tenantIds, userProperty, dashVars, nonInvVars >>

\* acceptInvite, lines 136-139: a rejected updateDoc of the invite is rethrown
AcceptUpdateFails ==
    /\ acceptCall.pc = "update"
    /\ acceptCall' = Ended("threw")
    /\ UNCHANGED << invites, inviteCall, tenVars, nonInvVars >>

\* the rest of acceptInvite once the user document is dealt with, line 155:
\* without propertyId the call returns
AfterUser ==
    IF IsNull(acceptCall.propertyId)
    THEN Ended("returned")
    ELSE [acceptCall EXCEPT !.pc = "property"]

\* acceptInvite, lines 142-149: updateDoc of the tenant's user document with
\* propertyId: inviteData.propertyId || null
AcceptUser ==
    /\ acceptCall.pc = "user"
    /\ userProperty' = [userProperty EXCEPT ![acceptCall.tenantId] = acceptCall.propertyId]
    /\ acceptCall' = AfterUser
    /\ UNCHANGED << invites, inviteCall, tenantIds, tenHistory, dashVars,
                    nonInvVars >>

\* acceptInvite, lines 150-153: a rejected update of the user document is
\* caught and the call goes on
AcceptUserFails ==
    /\ acceptCall.pc = "user"
    /\ acceptCall' = AfterUser
    /\ UNCHANGED << invites, inviteCall, tenVars, nonInvVars >>

\* acceptInvite, lines 156-163: the property is found and
\* addTenantToProperty(property.id, tenantId) is an arrayUnion
AcceptProperty ==
    /\ acceptCall.pc = "property"
    /\ tenantIds' = tenantIds \cup {acceptCall.tenantId}
    /\ acceptCall' = Ended("returned")
    /\ UNCHANGED << invites, inviteCall, userProperty, tenHistory, dashVars,
                    nonInvVars >>

\* acceptInvite, lines 164-168: a rejected read or update of the property
\* is caught and the call returns
AcceptPropertyFails ==
    /\ acceptCall.pc = "property"
    /\ acceptCall' = Ended("returned")
    /\ UNCHANGED << invites, inviteCall, tenVars, nonInvVars >>

\* declineInvite, lines 177-183
declineInvite(i) ==
    /\ i \in 1..Len(invites)
    /\ invites[i].status # "declined"
    /\ invites' = [invites EXCEPT ![i].status = "declined"]
    /\ UNCHANGED << inviteCall, acceptCall, tenVars, nonInvVars >>

-----------------------------------------------------------------------------
(* The landlord dashboard's tenant lists *)

\* getLandlordInvites filtered as handleSelectProperty line 865-866 and
\* syncAllPropertiesTenants lines 1513 and 1534 do: the tenants of the
\* accepted invites of the property.  An accepted invite carries its
\* tenantId, so the lookup by email of lines 870-884 finds nothing to do.
AcceptedTenants ==
    { invites[i].tenantId[1] : i \in
        { j \in 1..Len(invites) :
            /\ invites[j].status = "accepted"
            /\ invites[j].propertyId = Some(InvitedProperty)
            /\ ~IsNull(invites[j].tenantId) } }

\* history: the tenants whose handleRemoveTenant call is over and who have
\* not accepted an invite since
RemovedBefore ==
    removedTenants \ (IF removeCall.pc = "user" THEN {removeCall.tenantId} ELSE {})

\* getPropertyTenants, properties.js lines 263-283: the tenants of
\* tenantIds, each of which has a user document
getPropertyTenants == tenantIds

\* handleSelectProperty, lines 853-861 and 887: the property is selected and
\* the landlord's invites are read
SelectStart ==
    /\ selectCall.pc = "idle"
    /\ selectedProperty' = Some(InvitedProperty)
    /\ selectCall' = [IdleSelect EXCEPT !.pc = "loop", !.todo = AcceptedTenants]
    /\ selectAfter' = RemovedBefore
    /\ UNCHANGED << tenantIds, userProperty, removedTenants, syncAllAfter,
                    syncAllCall, removeCall, invVars, nonInvVars >>

\* handleSelectProperty, lines 897-908: the next invite of the loop, in the
\* order of the invites' document ids; the tenants are read again for each
SelectCheck(t) ==
    /\ selectCall.pc = "loop"
    /\ t \in selectCall.todo
    /\ selectCall' =
          IF t \in getPropertyTenants
          THEN [selectCall EXCEPT !.todo = @ \ {t}]
          ELSE [selectCall EXCEPT !.pc = "add", !.todo = @ \ {t}, !.tenantId = t]
    /\ UNCHANGED << tenantIds, userProperty, tenHistory, selectedProperty,
                    syncAllCall, removeCall, invVars, nonInvVars >>

\* handleSelectProperty, lines 909-912: addTenantToProperty
SelectAdd ==
    /\ selectCall.pc = "add"
    /\ tenantIds' = tenantIds \cup {selectCall.tenantId}
    /\ selectCall' = [selectCall EXCEPT !.pc = "loop"]
    /\ UNCHANGED << userProperty, tenHistory, selectedProperty, syncAllCall,
                    removeCall, invVars, nonInvVars >>

\* handleSelectProperty, lines 914-916: a failure is caught per invite
SelectAddFails ==
    /\ selectCall.pc = "add"
    /\ selectCall' = [selectCall EXCEPT !.pc = "loop"]
    /\ UNCHANGED << tenantIds, userProperty, tenHistory, selectedProperty,
                    syncAllCall, removeCall, invVars, nonInvVars >>

\* handleSelectProperty, lines 917-921: the loop is over
SelectDone ==
    /\ selectCall.pc = "loop"
    /\ selectCall.todo = {}
    /\ selectCall' = IdleSelect
    /\ selectAfter' = {}
    /\ UNCHANGED << tenantIds, userProperty, removedTenants, syncAllAfter,
                    selectedProperty, syncAllCall, removeCall, invVars, nonInvVars >>

\* the other members of the landlord's chat rooms, lines 1516-1526
ChatMembers == SUBSET TenantUsers

\* syncAllPropertiesTenants, lines 1509-1526: the accepted invites and the
\* members of the landlord's chat rooms are read
SyncAllStart(chats) ==
    /\ syncAllCall.pc = "idle"
    /\ syncAllCall' = [IdleSyncAll EXCEPT !.pc = "tenants",
                                          !.invited = AcceptedTenants,
                                          !.chats = chats]
    /\ syncAllAfter' = RemovedBefore
    /\ UNCHANGED << tenantIds, userProperty, removedTenants, selectAfter,
                    selectedProperty, selectCall, removeCall, invVars, nonInvVars >>

\* syncAllPropertiesTenants, lines 1532-1536: the tenants of the property
\* are read once, currentTenantIds
SyncAllTenants ==
    /\ syncAllCall.pc = "tenants"
    /\ syncAllCall' = [syncAllCall EXCEPT !.pc = "invites",
                                          !.invited = {},
                                          !.todo = syncAllCall.invited \ getPropertyTenants,
                                          !.chats = @ \ getPropertyTenants]
    /\ UNCHANGED << tenantIds, userProperty, tenHistory, selectedProperty,
                    selectCall, removeCall, invVars, nonInvVars >>

\* syncAllPropertiesTenants, lines 1541-1547: addTenantToProperty for an
\* invite whose tenant is not among currentTenantIds, and
\* currentTenantIds.add
SyncAllAdd(t) ==
    /\ syncAllCall.pc = "invites"
    /\ t \in syncAllCall.todo
    /\ tenantIds' = tenantIds \cup {t}
    /\ syncAllCall' = [syncAllCall EXCEPT !.todo = @ \ {t}, !.chats = @ \ {t}]
    /\ UNCHANGED << userProperty, tenHistory, selectedProperty, selectCall,
                    removeCall, invVars, nonInvVars >>

\* syncAllPropertiesTenants, lines 1548-1550: a failure is caught per invite
SyncAllAddFails(t) ==
    /\ syncAllCall.pc = "invites"
    /\ t \in syncAllCall.todo
    /\ syncAllCall' = [syncAllCall EXCEPT !.todo = @ \ {t}]
    /\ UNCHANGED << tenantIds, userProperty, tenHistory, selectedProperty,
                    selectCall, removeCall, invVars, nonInvVars >>

\* syncAllPropertiesTenants, lines 1555-1561: the user document of a chat
\* member who is not among currentTenantIds is read; every user of
\* TenantUsers has role tenant
SyncAllChat(t) ==
    /\ syncAllCall.pc = "invites"
    /\ syncAllCall.todo = {}
    /\ t \in syncAllCall.chats
    /\ syncAllCall' =
          IF userProperty[t] = Some(InvitedProperty)
          THEN [syncAllCall EXCEPT !.pc = "chatAdd", !.chats = @ \ {t}, !.tenantId = t]
          ELSE [syncAllCall EXCEPT !.chats = @ \ {t}]
    /\ UNCHANGED << tenantIds, userProperty, tenHistory, selectedProperty,
                    selectCall, removeCall, invVars, nonInvVars >>

\* syncAllPropertiesTenants, lines 1562-1565: addTenantToProperty for the
\* chat member
SyncAllChatAdd ==
    /\ syncAllCall.pc = "chatAdd"
    /\ tenantIds' = tenantIds \cup {syncAllCall.tenantId}
    /\ syncAllCall' = [syncAllCall EXCEPT !.pc = "invites"]
    /\ UNCHANGED << userProperty, tenHistory, selectedProperty, selectCall,
                    removeCall, invVars, nonInvVars >>

\* syncAllPropertiesTenants, lines 1568-1570: a failure is caught per member
SyncAllChatAddFails ==
    /\ syncAllCall.pc = "chatAdd"
    /\ syncAllCall' = [syncAllCall EXCEPT !.pc = "invites"]
    /\ UNCHANGED << tenantIds, userProperty, tenHistory, selectedProperty,
                    selectCall, removeCall, invVars, nonInvVars >>

\* syncAllPropertiesTenants, lines 1574-1583: both loops are over
SyncAllDone ==
    /\ syncAllCall.pc = "invites"
    /\ syncAllCall.todo = {}
    /\ syncAllCall.chats = {}
    /\ syncAllCall' = IdleSyncAll
    /\ syncAllAfter' = {}
    /\ UNCHANGED << tenantIds, userProperty, removedTenants, selectAfter,
                    selectedProperty, selectCall, removeCall, invVars, nonInvVars >>

\* handleRemoveTenant, lines 1472-1485, for a tenant of the list shown and a
\* confirmed dialog: removeTenantFromProperty is an arrayRemove
handleRemoveTenant(t) ==
    /\ removeCall.pc = "idle"
    /\ ~IsNull(selectedProperty)
    /\ t \in tenantIds
    /\ tenantIds' = tenantIds \ {t}
    /\ removedTenants' = removedTenants \cup {t}
    /\ removeCall' = [pc |-> "user", tenantId |-> t]
    /\ UNCHANGED << userProperty, selectAfter, syncAllAfter, selectedProperty, selectCall, syncAllCall,
                    invVars, nonInvVars >>

\* handleRemoveTenant, lines 1487-1501: the tenant's user document loses its
\* propertyId and landlordId
RemoveUser ==
    /\ removeCall.pc = "user"
    /\ userProperty' = [userProperty EXCEPT ![removeCall.tenantId] = Null]
    /\ removeCall' = IdleRemove
    /\ UNCHANGED << tenantIds, tenHistory, selectedProperty, selectCall,
                    syncAllCall, invVars, nonInvVars >>

\* handleRemoveTenant, lines 1502-1505: a rejected update is caught
RemoveUserFails ==
    /\ removeCall.pc = "user"
    /\ removeCall' = IdleRemove
    /\ UNCHANGED << tenantIds, userProperty, tenHistory, selectedProperty,
                    selectCall, syncAllCall, invVars, nonInvVars >>

----------------------------------------------------------------------------
(* Properties of the invites *)

\* C20: whatever createInvite, acceptInvite and declineInvite calls have
\* run, overlapping createInvite calls included, a landlord has at most one
\* pending invite for a tenant email, emails taken lower-cased and trimmed.
C20_OnePendingInvite ==
    \A landlordId \in InviteLandlords, tenantEmail \in TenantEmails :
        Cardinality({ i \in 1..Len(invites) :
            /\ invites[i].landlordId = landlordId
            /\ normalizedEmail(invites[i].tenantEmail)
                  = normalizedEmail(tenantEmail)
            /\ invites[i].status = "pending" }) <= 1

-----------------------------------------------------------------------------
(* The tenant's PropertyDashboard *)

\* PropertyDashboard.jsx line 59
maxRetries == 3

\* the getPropertyByPropertyId calls of one loadPropertyData call that the
\* model follows
MaxAttempts == 5

\* the error messages of lines 48, 79, 88 and 109, and '' of line 23
NoError == "none"
ErrNoProperty == "No property assigned"
ErrNotFound == "Property not found"
ErrLoading == "Error loading property"
ErrNoProfile == "User profile not found"

\* the user document of the tenant, lines 37-43: absent (Null), or its
\* propertyId and landlordId
UserDocs ==
    {Null} \cup
    { Some([propertyId |-> p, landlordId |-> l]) :
        p \in {Null, Some("p1")}, l \in {Null, Some("l1")} }

\* what getPropertyByPropertyId does in one attempt, line 64: a property,
\* null, or an exception
AttemptOutcomes == {"property", "null", "throws"}

\* what getDoc of the landlord does, lines 96-105
LandlordOutcomes == {"exists", "missing", "throws"}

\* the locals of loadPropertyData
IdleLoad == [pc |-> "idle", llId |-> Null, retries |-> 0]

\* useState, lines 17-25
LoadInit ==
    /\ pdLoading = TRUE
    /\ pdError = NoError
    /\ pdPropertyInfo = Null
    /\ pdLandlordInfo = Null
    /\ loadCall = IdleLoad
    /\ attempts = 0

\* loadPropertyData, lines 33-38, called by the effect of lines 27-31
loadPropertyData ==
    /\ loadCall.pc \in {"idle", "done"}
    /\ pdLoading' = TRUE
    /\ loadCall' = [IdleLoad EXCEPT !.pc = "user"]
    /\ attempts' = 0
    /\ UNCHANGED << pdError, pdPropertyInfo, pdLandlordInfo, nonLoadVars >>

\* loadPropertyData, lines 40-59 and 107-115: the user document has been read
UserRead(userDoc) ==
    /\ loadCall.pc = "user"
    /\ IF IsNull(userDoc)
       THEN /\ pdError' = ErrNoProfile
            /\ pdLoading' = FALSE
            /\ loadCall' = [loadCall EXCEPT !.pc = "done"]
       ELSE IF IsNull(userDoc[1].propertyId)
       THEN /\ pdError' = ErrNoProperty
            /\ pdLoading' = FALSE
            /\ loadCall' = [loadCall EXCEPT !.pc = "done"]
       ELSE /\ loadCall' = [pc |-> "attempt", llId |-> userDoc[1].landlordId,
                            retries |-> 0]
            /\ UNCHANGED << pdError, pdLoading >>
    /\ UNCHANGED << pdPropertyInfo, pdLandlordInfo, attempts, nonLoadVars >>

\* loadPropertyData, lines 111-115: getDoc of the user document throws
UserReadThrows ==
    /\ loadCall.pc = "user"
    /\ pdLoading' = FALSE
    /\ loadCall' = [loadCall EXCEPT !.pc = "done"]
    /\ UNCHANGED << pdError, pdPropertyInfo, pdLandlordInfo, attempts,
                    nonLoadVars >>

\* the condition of the while loop, line 61
LoopGoesOn(property, retries) == ~property /\ retries < maxRetries

\* loadPropertyData, lines 93-94 and 113-115 once the loop is over: without
\* landlordId nothing is awaited before the finally
AfterLoop ==
    IF IsNull(loadCall.llId)
    THEN /\ pdLoading' = FALSE
         /\ loadCall' = [loadCall EXCEPT !.pc = "done"]
    ELSE /\ loadCall' = [loadCall EXCEPT !.pc = "landlord"]
         /\ UNCHANGED pdLoading

\* loadPropertyData, lines 61-91: one attempt.  A property ends the loop; a
\* failed attempt before the last retry waits; a failed attempt after it
\* sets the error and comes back to the condition of the loop with retries
\* as it was
Attempt(outcome) ==
    /\ loadCall.pc = "attempt"
    /\ attempts < MaxAttempts
    /\ attempts' = attempts + 1
    /\ IF outcome = "property"
       THEN /\ pdPropertyInfo' = Some("p1")
            /\ AfterLoop
            /\ UNCHANGED pdError
       ELSE IF loadCall.retries < maxRetries - 1
       THEN /\ loadCall' = [loadCall EXCEPT !.pc = "wait"]
            /\ UNCHANGED << pdError, pdLoading, pdPropertyInfo >>
       ELSE /\ pdError' = IF outcome = "null" THEN ErrNotFound ELSE ErrLoading
            /\ IF LoopGoesOn(FALSE, loadCall.retries)
               THEN UNCHANGED << loadCall, pdLoading >>
               ELSE AfterLoop
            /\ UNCHANGED pdPropertyInfo
    /\ UNCHANGED << pdLandlordInfo, nonLoadVars >>

\* loadPropertyData, lines 75-76 and 85-86: the second is over, retries++,
\* and the condition of the loop
Wait ==
    /\ loadCall.pc = "wait"
    /\ IF LoopGoesOn(FALSE, loadCall.retries + 1)
       THEN /\ loadCall' = [loadCall EXCEPT !.pc = "attempt", !.retries = @ + 1]
            /\ UNCHANGED pdLoading
       ELSE AfterLoop
    /\ UNCHANGED << pdError, pdPropertyInfo, pdLandlordInfo, attempts,
                    nonLoadVars >>

\* loadPropertyData, lines 94-106 and 113-115: the landlord's document
LandlordRead(outcome) ==
    /\ loadCall.pc = "landlord"
    /\ pdLandlordInfo' = IF outcome = "exists" THEN loadCall.llId ELSE pdLandlordInfo
    /\ pdLoading' = FALSE
    /\ loadCall' = [loadCall EXCEPT !.pc = "done"]
    /\ UNCHANGED << pdError, pdPropertyInfo, attempts, nonLoadVars >>

-----------------------------------------------------------------------------
(* Properties of the PropertyDashboard *)

\* C22: loadPropertyData makes at most maxRetries = 3 attempts to load the
\* tenant's property.
C22_BoundedRetry == attempts <= maxRetries

-----------------------------------------------------------------------------
(* Properties of the invited tenants *)

\* C21: when acceptInvite(inviteId, tenantId) returns without error for an
\* invite that was pending and names the existing property, the invite has
\* status accepted with that tenantId and the tenantId is in the property's
\* tenantIds.
C21_AcceptLinks ==
    [][ ( /\ acceptCall.pc = "property"
          /\ acceptCall.wasPending
          /\ acceptCall'.pc = "returned" )
        => /\ invites'[acceptCall.inviteId].status = "accepted"
           /\ invites'[acceptCall.inviteId].tenantId = Some(acceptCall.tenantId)
           /\ acceptCall.tenantId \in tenantIds' ]_vars

\* C24: a tenant the landlord removed with handleRemoveTenant, and who has
\* not accepted an invite since, is not put back into tenantIds by the
\* synchronisation of handleSelectProperty or by syncAllPropertiesTenants.
C24_RemovalDurable ==
    [][ /\ \A t \in selectAfter :
             (t \notin tenantIds /\ t \in tenantIds') => selectCall' = selectCall
        /\ \A t \in syncAllAfter :
             (t \notin tenantIds /\ t \in tenantIds') => syncAllCall' = syncAllCall
      ]_vars

----------------------------------------------------------------------------
(* Specifications *)

\* the other components before anything has happened in them
RestIdle ==
    DbInit /\ ChatInit /\ AuthInit /\ InvInit /\ TenInit /\ LoadInit

\* Scoring: rosters that vary ratings and quotes, and the roster of App.jsx
Init == InitWith(Rosters(ScoreProfiles, MaxRoster) \cup {RealRoster}) /\ RestIdle

Next ==
    \/ \E r \in FewRequests : setRequest(r)
    \/ \E p \in FewProps : setPropertyInfo(p)
    \/ skipProperty
    \/ RecommendEffect

Spec == Init /\ [][Next]_vars

\* Dominance: rosters of providers that tie in rating or in price
InitDominance ==
    InitWith(Rosters(DominanceProfiles, MaxDominanceRoster) \cup {RealRoster})
      /\ RestIdle

NextDominance ==
    \/ \E r \in OneRequest : setRequest(r)
    \/ \E p \in FewProps : setPropertyInfo(p)
    \/ skipProperty
    \/ RecommendEffect

SpecDominance == InitDominance /\ [][NextDominance]_vars

\* Classification: the roster of App.jsx under many titles
InitClassify == InitWith({RealRoster}) /\ RestIdle

NextClassify ==
    \/ \E r \in RichRequests : setRequest(r)
    \/ \E p \in {PropIrvine} : setPropertyInfo(p)
    \/ skipProperty
    \/ RecommendEffect

SpecClassify == InitClassify /\ [][NextClassify]_vars

\* Area filter: rosters that vary the service areas, under many properties
InitArea == InitWith(Rosters(AreaProfiles, MaxAreaRoster) \cup {RealRoster}) /\ RestIdle

NextArea ==
    \/ \E r \in OneRequest : setRequest(r)
    \/ \E p \in RichProps \cup FewProps : setPropertyInfo(p)
    \/ skipProperty
    \/ RecommendEffect

SpecArea == InitArea /\ [][NextArea]_vars

\* Requests: the maintenance API and the triggers on one roster
InitRequests == InitWith({RealRoster}) /\ RestIdle

NextRequests ==
    \/ \E i \in RequestIds, data \in RequestDatas : CreateStart(i, data)
    \/ \E i \in RequestIds : CreateResolve(i)
    \/ \E i \in RequestIds : CreateAdd(i)
    \/ \E i \in RequestIds : CreateMembers(i)
    \/ \E i \in RequestIds : CreateRoomQuery(i)
    \/ \E i \in RequestIds : CreateRoomAdd(i)
    \/ \E i \in RequestIds : CreateRoomFails(i)
    \/ \E i \in RequestIds : OnCreateMaintenanceRequest(i)
    \/ \E i \in RequestIds, status \in {"in_progress", "complete"} :
          updateRequestStatus(i, status)
    \/ \E i \in RequestIds, k \in Contractors : AssignStart(i, k)
    \/ \E i \in RequestIds : AssignLookup(i)
    \/ \E i \in RequestIds : AssignAdd(i)
    \/ \E i \in RequestIds : AssignAddFails(i)
    \/ \E i \in RequestIds : clearContractor(i)
    \/ \E i \in RequestIds, k \in Contractors : OnUpdateMaintenanceRequest(i, k)

SpecRequests == InitRequests /\ [][NextRequests]_vars

\* the chat rooms of the requests: the creation of a request with its room,
\* the onCreate trigger and the chat button of the detail page
InitChat == InitWith({RealRoster}) /\ RestIdle

NextChat ==
    \/ \E i \in RequestIds, data \in RequestDatas : CreateStart(i, data)
    \/ \E i \in RequestIds : CreateResolve(i)
    \/ \E i \in RequestIds : CreateAdd(i)
    \/ \E i \in RequestIds : CreateMembers(i)
    \/ \E i \in RequestIds : CreateRoomQuery(i)
    \/ \E i \in RequestIds : CreateRoomAdd(i)
    \/ \E i \in RequestIds : CreateRoomFails(i)
    \/ \E i \in RequestIds : OnCreateMaintenanceRequest(i)
    \/ \E i \in RequestIds, tenants \in {PropertyP1.tenants, {}} :
          handleOpenChat(i, tenants)
    \/ \E i \in RequestIds : OpenChatFind(i)
    \/ \E i \in RequestIds : OpenChatRoomQuery(i)
    \/ \E i \in RequestIds : OpenChatRoomAdd(i)
    \/ \E i \in RequestIds, u \in PropertyP1.tenants \cup Contractors :
          OpenChatEnsure(i, u)

SpecChat == InitChat /\ [][NextChat]_vars

\* Auth: the auth callback, the signup's storage writes and the router
InitAuth == InitWith({RealRoster}) /\ RestIdle

NextAuth ==
    \/ \E user \in {Null} \cup {Some(u) : u \in Uids} : onAuthStateChanged(user)
    \/ \E tokenRole \in {Null} \cup {Some(r) : r \in Roles} : claimsRead(tokenRole)
    \/ \E docRole \in {Null} \cup {Some(r) : r \in Roles} : firestoreRead(docRole)
    \/ \E uid \in Uids : storeRole(uid)
    \/ \E required \in RouteRoles : navigate(required)

SpecAuth == InitAuth /\ [][NextAuth]_vars

\* Invites: createInvite calls of two callers, acceptInvite and declineInvite
InitInvites == InitWith({RealRoster}) /\ RestIdle

NextInvites ==
    \/ \E c \in InviteCallers, landlordId \in InviteLandlords,
          tenantEmail \in TenantEmails :
            createInvite(c, landlordId, tenantEmail, Null)
    \/ \E c \in InviteCallers : InviteQuery(c)
    \/ \E c \in InviteCallers : InviteAdd(c)
    \/ \E i \in 1..MaxInvites : AcceptRead(i, "t1")
    \/ AcceptUpdate
    \/ AcceptUpdateFails
    \/ AcceptUser
    \/ AcceptUserFails
    \/ \E i \in 1..MaxInvites : declineInvite(i)

SpecInvites == InitInvites /\ [][NextInvites]_vars

\* the invited tenants of one property: invites of one landlord to the
\* property, their acceptance, and the landlord's dashboard
InitTenants == InitWith({RealRoster}) /\ RestIdle

NextTenants ==
    \/ createInvite(1, "l1", << "a" >>, Some(InvitedProperty))
    \/ InviteQuery(1)
    \/ InviteAdd(1)
    \/ \E i \in 1..MaxInvites, t \in TenantUsers : AcceptRead(i, t)
    \/ AcceptUpdate
    \/ AcceptUpdateFails
    \/ AcceptUser
    \/ AcceptUserFails
    \/ AcceptProperty
    \/ AcceptPropertyFails
    \/ SelectStart
    \/ \E t \in TenantUsers : SelectCheck(t)
    \/ SelectAdd
    \/ SelectAddFails
    \/ SelectDone
    \/ \E chats \in ChatMembers : SyncAllStart(chats)
    \/ SyncAllTenants
    \/ \E t \in TenantUsers : SyncAllAdd(t)
    \/ \E t \in TenantUsers : SyncAllAddFails(t)
    \/ \E t \in TenantUsers : SyncAllChat(t)
    \/ SyncAllChatAdd
    \/ SyncAllChatAddFails
    \/ SyncAllDone
    \/ \E t \in TenantUsers : handleRemoveTenant(t)
    \/ RemoveUser
    \/ RemoveUserFails

SpecTenants == InitTenants /\ [][NextTenants]_vars

\* the PropertyDashboard of a tenant: every user document, and every
\* outcome of every read
InitLoad == InitWith({RealRoster}) /\ RestIdle

NextLoad ==
    \/ loadPropertyData
    \/ \E userDoc \in UserDocs : UserRead(userDoc)
    \/ UserReadThrows
    \/ \E outcome \in AttemptOutcomes : Attempt(outcome)
    \/ Wait
    \/ \E outcome \in LandlordOutcomes : LandlordRead(outcome)

SpecLoad == InitLoad /\ [][NextLoad]_vars

====
